---------------------------- MODULE Spec2Model ----------------------------
(***************************************************************************)
(* A model of xmag: URL-file ingestion (input.py), the build orchestration *)
(* (builder.py, extractor.py, media.py, compiler.py) and the block         *)
(* classifier of the renderer (renderer.py).                               *)
(*                                                                         *)
(* Text is modelled as a sequence of one-character strings, so that the    *)
(* string functions of the source (strip, split, splitlines, regular       *)
(* expression matches, formatting) are computed character by character.    *)
(***************************************************************************)
EXTENDS Integers, Sequences, FiniteSets, TLC

VARIABLES
    pc,                \* position of build_issue / of the pure-function drivers
    inputs,            \* list[ArticleInput] returned by load_url_file
    continue_on_error, \* build_issue(continue_on_error=...)
    pagination,        \* config.pagination
    output,            \* build_issue(output=...): [parent, name]
    idx,               \* position of `for item in inputs` (1-based)
    attempt,           \* extract_article(_attempt=...)
    timeout_s,         \* extract_article(timeout_s=...) of the running call
    visits,            \* page.goto calls made for the item last handed over:
                       \* [item, timeout, outcome]
    attempted,         \* items handed to extract_article by the loop, in call order
    contents,          \* _extract_contents: contents
    failures,          \* _extract_contents: failures
    report,            \* the BuildReport of build_issue: <<>> before line 102, then <<r>>
    error,             \* exception that left build_issue, "" when none
    m_article,         \* position of `for article in contents` (media loop)
    m_asset,           \* position of `for index, url in enumerate(normalized_urls)`
    local_media,       \* download_media: local_media of the running call
    media_map,         \* build_issue: media_map, as a list of [status_id, media]
    fetched,           \* every client.get made, in order: [status_id, url, ok]
    c_index,           \* position of `for index, article in enumerate(contents, 1)`
    compiles,          \* every compile_tex_with_tectonic call: [articles, output]
    url_parts,         \* the pieces a URL under test is written from
    url,               \* parse_status_id: its argument
    parsed,            \* parse_status_id: its result, [kind, status_id]
    url_lines,         \* load_url_file: path.read_text().splitlines()
    url_result,        \* load_url_file: its result, [kind, items, line]
    text_parts,        \* the lines and fenced spans a text under test is written from
    text,              \* _parse_content_blocks: its argument
    blocks,            \* _parse_content_blocks: its result
    raw_parts,         \* the lines a raw text under test is written from
    author,            \* _sanitize_text: [name, handle]
    raw_text,          \* _sanitize_text: its argument raw_text
    sanitized,         \* _sanitize_text: its result, <<>> before the call, then <<s>>
    markup_parts,      \* the runs and spans a block body under test is written from
    value,             \* _render_inline_markup, latex_escape: the argument
    rendered,          \* _render_inline_markup: its result, <<>> before the call
    escaped,           \* latex_escape: its result, <<>> before the call
    issue_contents,    \* render_issue_tex: contents, as [status_id, blocks], where
                       \* blocks is len(_render_content_blocks(article.text))
    issue_media,       \* render_issue_tex: media_map, as a list of [status_id, images]
    issue_config,      \* render_issue_tex: config
    issue,             \* render_issue_tex: the arguments of template.render, <<>>
                       \* before the call
    layout_args,       \* cli.build: the options handed to LayoutConfig(...)
    layout_result,     \* LayoutConfig(...): [kind, config]
    exit_code,         \* cli.build: the code of typer.Exit, -1 when none was raised
    page,              \* extract_article: the page after page.goto
    extract_call,      \* extract_article: [attempt, timeout_s] of the running call
    article_locator,   \* _find_article_locator: its result, [kind, index]
    extraction,        \* extract_article: its result, [kind, text]
    code_parts,        \* the pieces a code body under test is written from
    code_block,        \* _render_code_block: its argument block, [kind, body, language]
    code_tex           \* _render_code_block: its result, <<>> before the call

vars == <<pc, inputs, continue_on_error, pagination, output, idx, attempt,
          timeout_s, visits, attempted, contents, failures, report,
          error, m_article, m_asset, local_media, media_map, fetched, c_index,
          compiles, url_parts, url, parsed, url_lines, url_result, text_parts,
          text, blocks, raw_parts, author, raw_text, sanitized, markup_parts,
          value, rendered, escaped, issue_contents, issue_media, issue_config,
          issue, layout_args, layout_result, exit_code, page, extract_call,
          article_locator, extraction, code_parts, code_block, code_tex>>

buildVars == <<pc, inputs, continue_on_error, pagination, output, idx, attempt,
               timeout_s, visits, attempted, contents, failures, report,
               error, m_article, m_asset, local_media, media_map,
               fetched, c_index, compiles>>

inputVars == <<url_parts, url, parsed, url_lines, url_result>>

blockVars == <<text_parts, text, blocks>>

sanitizeVars == <<raw_parts, author, raw_text, sanitized>>

\* The variables of the other pure functions.
inlineVars == <<markup_parts, value, rendered, escaped>>

renderVars == <<issue_contents, issue_media, issue_config, issue>>

layoutVars == <<layout_args, layout_result, exit_code>>

extractVars == <<page, extract_call, article_locator, extraction>>

codeVars == <<code_parts, code_block, code_tex>>

moreVars == <<sanitizeVars, inlineVars, renderVars, layoutVars, extractVars,
              codeVars>>

(***************************************************************************)
(* Bounds of the model.                                                    *)
(***************************************************************************)
MaxInputs == 3

(***************************************************************************)
(* Generic sequence helpers (Python list / str primitives).                *)
(***************************************************************************)
Range(s) == {s[i] : i \in 1..Len(s)}

SeqsUpTo(S, n) == UNION {[1..k -> S] : k \in 0..n}

RECURSIVE Flatten(_)
Flatten(ss) == IF ss = <<>> THEN <<>> ELSE Head(ss) \o Flatten(Tail(ss))

\* s[a:b] of Python with 1-based inclusive bounds; empty when a > b.
Slice(s, a, b) == IF a > b THEN <<>> ELSE SubSeq(s, a, b)


Last(s) == s[Len(s)]

(***************************************************************************)
(* Characters.                                                             *)
(***************************************************************************)
DigitChars == <<"0", "1", "2", "3", "4", "5", "6", "7", "8", "9">>

UpperChars == <<"A", "B", "C", "D", "E", "F", "G", "H", "I", "J", "K", "L", "M",
                "N", "O", "P", "Q", "R", "S", "T", "U", "V", "W", "X", "Y", "Z">>

LowerChars == <<"a", "b", "c", "d", "e", "f", "g", "h", "i", "j", "k", "l", "m",
                "n", "o", "p", "q", "r", "s", "t", "u", "v", "w", "x", "y", "z">>

IsDigitChar(c) == c \in Range(DigitChars)

IsUpperChar(c) == c \in Range(UpperChars)

IsLowerChar(c) == c \in Range(LowerChars)

\* str.lower() on one character.
LowerChar(c) ==
    IF IsUpperChar(c)
    THEN LowerChars[CHOOSE i \in 1..Len(UpperChars) : UpperChars[i] = c]
    ELSE c

\* str.lower()
Lower(s) == [i \in 1..Len(s) |-> LowerChar(s[i])]

\* str(n) for n >= 0.
RECURSIVE Digits(_)
Digits(n) ==
    IF n < 10 THEN <<DigitChars[n + 1]>>
    ELSE Digits(n \div 10) \o <<DigitChars[(n % 10) + 1]>>

\* Left-pads with "0" up to the width: the "0<w>d" of a format specification.
RECURSIVE ZeroPad(_, _)
ZeroPad(s, width) == IF Len(s) >= width THEN s ELSE ZeroPad(<<"0">> \o s, width)

\* f"{index:03d}"
Pad3(index) == ZeroPad(Digits(index), 3)

(***************************************************************************)
(* pathlib: the name of a path is a sequence of characters.                *)
(***************************************************************************)
\* Position of the last "." of a name, 0 when there is none.
LastDot(name) ==
    IF \E i \in 1..Len(name) : name[i] = "."
    THEN CHOOSE i \in 1..Len(name) :
            name[i] = "." /\ \A j \in (i + 1)..Len(name) : name[j] # "."
    ELSE 0

\* PurePath.suffix: from the last dot, unless the dot leads or ends the name.
PathSuffix(name) ==
    LET i == LastDot(name) IN
    IF 1 < i /\ i < Len(name) THEN Slice(name, i, Len(name)) ELSE <<>>

\* PurePath.stem
PathStem(name) ==
    LET i == LastDot(name) IN
    IF 1 < i /\ i < Len(name) THEN Slice(name, 1, i - 1) ELSE name

PdfSuffix == <<".", "p", "d", "f">>

TexSuffix == <<".", "t", "e", "x">>

\* PurePath.with_suffix(".pdf")
WithPdfSuffix(name) == PathStem(name) \o PdfSuffix

\* builder.py line 99
ForcePdfSuffix(name) ==
    IF Lower(PathSuffix(name)) = PdfSuffix THEN name ELSE WithPdfSuffix(name)

SplitOutputPath_NameAsStem(out, index, status_id) ==
    [parent |-> out.parent,
     name |-> out.name \o <<"-">> \o Pad3(index) \o <<"-">> \o status_id
              \o PdfSuffix]

\* _split_output_path
SplitOutputPath(out, index, status_id) ==
    LET stem == IF Lower(PathSuffix(out.name)) = PdfSuffix
                THEN PathStem(out.name) ELSE out.name
    IN [parent |-> out.parent,
        name |-> stem \o <<"-">> \o Pad3(index) \o <<"-">> \o status_id
                 \o PdfSuffix]

\* workspace / f"article-{index:03d}-{article.status_id}.tex"
ArticleTexName(index, status_id) ==
    <<"a", "r", "t", "i", "c", "l", "e", "-">> \o Pad3(index) \o <<"-">>
    \o status_id \o TexSuffix

IssueTexName == <<"i", "s", "s", "u", "e">> \o TexSuffix

(***************************************************************************)
(* The build orchestration: builder.py, extractor.py, media.py.            *)
(***************************************************************************)
\* build_issue(timeout_seconds=30)
DefaultTimeoutSeconds == 30

UrlPrefix == <<"h", "t", "t", "p", "s", ":", "/", "/", "x", ".", "c", "o", "m",
               "/", "a", "/", "s", "t", "a", "t", "u", "s", "/">>

\* The k-th ArticleInput of the URL file: status ids 111, 222, 333, ...
ArticleInput(k) ==
    [url |-> UrlPrefix \o Digits(111 * k), status_id |-> Digits(111 * k)]

\* The raw src attributes an article's page may carry (one repeated).
MediaA == [path |-> "media/abc", ext |-> "", format |-> "jpg", name |-> "small"]

MediaB == [path |-> "media/def", ext |-> "png", format |-> "", name |-> ""]

MediaChoices == {<<>>, <<MediaA>>, <<MediaA, MediaB, MediaA>>}

RECURSIVE DedupePreserve(_)
\* _dedupe_preserve: first occurrences, in order
DedupePreserve(items) ==
    IF items = <<>> THEN <<>>
    ELSE LET init == DedupePreserve(SubSeq(items, 1, Len(items) - 1))
             x == Last(items)
         IN IF x \in Range(init) THEN init ELSE Append(init, x)

\* normalize_media_url
NormalizeMediaUrl(media_url) ==
    [path |-> media_url.path, ext |-> media_url.ext,
     format |-> IF media_url.format # "" THEN media_url.format
                ELSE IF media_url.ext # "" THEN media_url.ext ELSE "jpg",
     name |-> "orig"]

\* download_media: normalized_urls
NormalizedUrls(media_urls) ==
    LET d == DedupePreserve(media_urls)
    IN [i \in 1..Len(d) |-> NormalizeMediaUrl(d[i])]

\* The ArticleContent extract_article returns (the fields the build reads).
ArticleContent(item, media_raw) ==
    [status_id |-> item.status_id, url |-> item.url,
     media_urls |-> DedupePreserve(media_raw)]

ErrorKinds == {"Timeout", "NotFound", "Empty", "Unexpected"}

Paginations == {"continuous", "newpage", "split"}

OutputNames == {<<"m", "a", "g">>, <<"m", ".", "P", "D", "F">>}

InitBuild ==
    /\ pc = "extract"
    /\ \E n \in 1..MaxInputs : inputs = [k \in 1..n |-> ArticleInput(k)]
    /\ continue_on_error \in BOOLEAN
    /\ pagination \in Paginations
    /\ \E name \in OutputNames : output = [parent |-> "dist", name |-> name]
    /\ idx = 1
    /\ attempt = 1
    /\ timeout_s = DefaultTimeoutSeconds
    /\ visits = <<>>
    /\ attempted = <<>>
    /\ contents = <<>>
    /\ failures = <<>>
    /\ report = <<>>
    /\ error = ""
    /\ m_article = 0
    /\ m_asset = 0
    /\ local_media = <<>>
    /\ media_map = <<>>
    /\ fetched = <<>>
    /\ c_index = 0
    /\ compiles = <<>>

NoUrlParts == [scheme |-> <<>>, host |-> <<>>, segments |-> <<>>, tail |-> <<>>]

NotParsed == [kind |-> "none", status_id |-> <<>>]

NotLoaded == [kind |-> "none", items |-> <<>>, line |-> 0]

InitInputIdle ==
    /\ url_parts = NoUrlParts
    /\ url = <<>>
    /\ parsed = NotParsed
    /\ url_lines = <<>>
    /\ url_result = NotLoaded

InitBlocksIdle ==
    /\ text_parts = <<>>
    /\ text = <<>>
    /\ blocks = <<>>

NoAuthor == [name |-> <<>>, handle |-> <<>>]

InitSanitizeIdle ==
    /\ raw_parts = <<>>
    /\ author = NoAuthor
    /\ raw_text = <<>>
    /\ sanitized = <<>>

InitInlineIdle ==
    /\ markup_parts = <<>>
    /\ value = <<>>
    /\ rendered = <<>>
    /\ escaped = <<>>

NoConfig == [paper |-> "", columns |-> 0, outer_margin_mm |-> 0, inner_margin_mm |-> 0,
             top_margin_mm |-> 0, bottom_margin_mm |-> 0, column_gap_mm |-> 0,
             pagination |-> "", image_layout |-> ""]

InitRenderIdle ==
    /\ issue_contents = <<>>
    /\ issue_media = <<>>
    /\ issue_config = NoConfig
    /\ issue = <<>>

InitLayoutIdle ==
    /\ layout_args = <<>>
    /\ layout_result = [kind |-> "none", config |-> NoConfig]
    /\ exit_code = -1

NoPage == [appears_after |-> 0, articles |-> <<>>]

NoLocator == [kind |-> "none", index |-> 0]

NoExtraction == [kind |-> "none", text |-> <<>>]

InitExtractIdle ==
    /\ page = NoPage
    /\ extract_call = [attempt |-> 0, timeout_s |-> 0]
    /\ article_locator = NoLocator
    /\ extraction = NoExtraction

InitCodeIdle ==
    /\ code_parts = <<>>
    /\ code_block = <<>>
    /\ code_tex = <<>>

InitMoreIdle ==
    /\ InitSanitizeIdle
    /\ InitInlineIdle
    /\ InitRenderIdle
    /\ InitLayoutIdle
    /\ InitExtractIdle
    /\ InitCodeIdle

InitOther == InitInputIdle /\ InitBlocksIdle /\ InitMoreIdle

mediaVars == <<m_article, m_asset, local_media, media_map, fetched>>

compileVars == <<c_index, compiles>>

configVars == <<inputs, continue_on_error, pagination>>

\* extract_article line 215: one page.goto of the running call is logged; the
\* loop of _extract_contents hands an item over on its first attempt.
LogVisit(outcome) ==
    /\ visits' = LET v == [item |-> idx, timeout |-> timeout_s, outcome |-> outcome]
                 IN IF attempt = 1 THEN <<v>> ELSE Append(visits, v)
    /\ attempted' = IF attempt = 1 THEN Append(attempted, idx) ELSE attempted

\* `for item in inputs` moves on to the next item with a fresh call.
NextItem ==
    /\ idx' = idx + 1
    /\ attempt' = 1
    /\ timeout_s' = DefaultTimeoutSeconds

OnArticleError_Swallow(kind) ==
    /\ NextItem
    /\ UNCHANGED <<pc, error, failures>>

\* _extract_contents lines 57-62: except ArticleExtractionError
OnArticleError(kind) ==
    IF continue_on_error
    THEN /\ failures' = Append(failures, [url |-> inputs[idx].url, kind |-> kind])
         /\ NextItem
         /\ UNCHANGED <<pc, error>>
    ELSE /\ pc' = "raised"
         /\ error' = "RuntimeError: article"
         /\ UNCHANGED <<failures, idx, attempt, timeout_s>>

Extracting == pc = "extract" /\ idx <= Len(inputs)

\* extract_article returns an ArticleContent; the loop appends it.
ExtractOk ==
    /\ Extracting
    /\ \E media_raw \in MediaChoices :
          contents' = Append(contents, ArticleContent(inputs[idx], media_raw))
    /\ LogVisit("ok")
    /\ NextItem
    /\ UNCHANGED <<pc, error, failures, report, output, configVars, mediaVars,
                   compileVars, inputVars, blockVars, moreVars>>

\* extract_article line 242: if _attempt == 1
RetryAllowed(a) == a = 1

RetryTimeout_Same(t) == t

\* extract_article line 243: timeout_s * 2
RetryTimeout(t) == t * 2

\* page.goto or a locator raises PlaywrightTimeoutError.
ExtractTimeout ==
    /\ Extracting
    /\ LogVisit("Timeout")
    /\ IF RetryAllowed(attempt)
       THEN /\ attempt' = 2
            /\ timeout_s' = RetryTimeout(timeout_s)
            /\ UNCHANGED <<pc, error, failures, idx>>
       ELSE OnArticleError("Timeout")
    /\ UNCHANGED <<contents, report, output, configVars, mediaVars, compileVars,
                   inputVars, blockVars, moreVars>>

\* ArticleNotFoundError, the empty-text ArticleExtractionError, or any other
\* exception normalized to ArticleExtractionError (lines 247-252).
ExtractFail ==
    /\ Extracting
    /\ \E kind \in ErrorKinds \ {"Timeout"} : LogVisit(kind) /\ OnArticleError(kind)
    /\ UNCHANGED <<contents, report, output, configVars, mediaVars, compileVars,
                   inputVars, blockVars, moreVars>>

BuildReport_CountInputs(total, cs, fs) ==
    [total |-> total, succeeded |-> total, failed |-> Len(fs),
     outputs |-> <<>>, failures |-> fs]

\* BuildReport(total=..., succeeded=..., failed=..., failures=failures)
BuildReport(total, cs, fs) ==
    [total |-> total, succeeded |-> Len(cs), failed |-> Len(fs),
     outputs |-> <<>>, failures |-> fs]

\* build_issue lines 96-105: _extract_contents has returned.
ExtractDone ==
    /\ pc = "extract"
    /\ idx > Len(inputs)
    /\ IF contents = <<>>
       THEN /\ pc' = "raised"
            /\ error' = "RuntimeError: No extractable articles were found"
            /\ UNCHANGED <<output, report, m_article, m_asset>>
       ELSE /\ pc' = "media"
            /\ output' = [output EXCEPT !.name = ForcePdfSuffix(output.name)]
            /\ report' = <<BuildReport(Len(inputs), contents, failures)>>
            /\ m_article' = 1
            /\ m_asset' = 1
            /\ UNCHANGED error
    /\ UNCHANGED <<idx, attempt, timeout_s, visits, attempted, contents,
                   failures, configVars, local_media, media_map, fetched,
                   compileVars, inputVars, blockVars, moreVars>>

(***************************************************************************)
(* build_issue lines 104-111 and download_media.                           *)
(***************************************************************************)
InMedia == pc = "media" /\ m_article <= Len(contents)

CurrentUrls == NormalizedUrls(contents[m_article].media_urls)

Fetching == InMedia /\ m_asset <= Len(CurrentUrls)

\* LocalMedia(source_url=url, local_path=out_dir / filename)
LocalMedia(status_id, media_url, index) ==
    [source_url |-> media_url, dir |-> status_id,
     file |-> <<Pad3(index), media_url.path, media_url.format>>]

LogFetch(ok) ==
    fetched' = Append(fetched, [status_id |-> contents[m_article].status_id,
                                url |-> CurrentUrls[m_asset], ok |-> ok])

\* download_media lines 67-78: client.get succeeds, the file is written.
FetchOk ==
    /\ Fetching
    /\ LogFetch(TRUE)
    /\ local_media' = Append(local_media,
            LocalMedia(contents[m_article].status_id, CurrentUrls[m_asset], m_asset))
    /\ m_asset' = m_asset + 1
    /\ UNCHANGED <<pc, error, report, output, m_article, media_map, idx, attempt,
                   timeout_s, visits, attempted, contents, failures, configVars,
                   compileVars, inputVars, blockVars, moreVars>>

OnMediaError_Skip ==
    /\ m_asset' = m_asset + 1
    /\ UNCHANGED <<pc, error>>

\* download_media lines 74-75: raise MediaDownloadError; build_issue has no
\* handler for it.
OnMediaError ==
    /\ pc' = "raised"
    /\ error' = "MediaDownloadError"
    /\ UNCHANGED m_asset

\* client.get or raise_for_status raises httpx.HTTPError.
FetchFail ==
    /\ Fetching
    /\ LogFetch(FALSE)
    /\ OnMediaError
    /\ UNCHANGED <<report, output, m_article, local_media, media_map, idx,
                   attempt, timeout_s, visits, attempted, contents, failures,
                   configVars, compileVars, inputVars, blockVars, moreVars>>

\* download_media returns local_media; build_issue stores it (line 108).
DownloadMediaReturn ==
    /\ InMedia
    /\ m_asset > Len(CurrentUrls)
    /\ media_map' = Append(media_map, [status_id |-> contents[m_article].status_id,
                                       media |-> local_media])
    /\ m_article' = m_article + 1
    /\ m_asset' = 1
    /\ local_media' = <<>>
    /\ UNCHANGED <<pc, error, report, output, fetched, idx, attempt, timeout_s,
                   visits, attempted, contents, failures, configVars,
                   compileVars, inputVars, blockVars, moreVars>>

\* `for article in contents` (line 107) is exhausted.
MediaDone == pc = "media" /\ m_article > Len(contents)

(***************************************************************************)
(* build_issue lines 113-130 and compile_tex_with_tectonic.                *)
(***************************************************************************)
\* config.pagination == PaginationMode.SPLIT
IsSplit(p) == p = "split"

\* The compile of the i-th article alone (lines 115-120).
SplitCompile(i) ==
    [tex |-> ArticleTexName(i, contents[i].status_id),
     articles |-> <<contents[i].status_id>>,
     output |-> SplitOutputPath(output, i, contents[i].status_id)]

\* The compile of the whole issue (lines 123-127).
IssueCompile ==
    [tex |-> IssueTexName,
     articles |-> [i \in 1..Len(contents) |-> contents[i].status_id],
     output |-> output]

\* The next compile_tex_with_tectonic call of build_issue, if any.
CompilePending ==
    /\ \/ MediaDone
       \/ pc = "compile"
    /\ c_index < (IF IsSplit(pagination) THEN Len(contents) ELSE 1)

NextCompile ==
    IF IsSplit(pagination) THEN SplitCompile(c_index + 1) ELSE IssueCompile

\* compile_tex_with_tectonic returns; report.outputs.append(...)
CompileOk ==
    /\ CompilePending
    /\ pc' = "compile"
    /\ compiles' = Append(compiles, NextCompile)
    /\ report' = <<[report[1] EXCEPT !.outputs = Append(@, NextCompile.output)]>>
    /\ c_index' = c_index + 1
    /\ UNCHANGED <<error, output, idx, attempt, timeout_s, visits, attempted,
                   contents, failures, configVars, mediaVars, inputVars, blockVars, moreVars>>

\* compile_tex_with_tectonic raises TectonicCompileError (compiler missing,
\* non-zero exit, artifact missing).
CompileFail ==
    /\ CompilePending
    /\ pc' = "raised"
    /\ error' = "TectonicCompileError"
    /\ compiles' = Append(compiles, NextCompile)
    /\ UNCHANGED <<c_index, report, output, idx, attempt, timeout_s, visits,
                   attempted, contents, failures, configVars, mediaVars,
                   inputVars, blockVars, moreVars>>

\* return report (line 130)
ReturnReport ==
    /\ pc = "compile"
    /\ c_index >= (IF IsSplit(pagination) THEN Len(contents) ELSE 1)
    /\ pc' = "returned"
    /\ UNCHANGED <<error, report, output, idx, attempt, timeout_s, visits,
                   attempted, contents, failures, configVars, mediaVars,
                   compileVars, inputVars, blockVars, moreVars>>

Init == InitBuild /\ InitOther

Next ==
    \/ ExtractOk
    \/ ExtractTimeout
    \/ ExtractFail
    \/ ExtractDone
    \/ FetchOk
    \/ FetchFail
    \/ DownloadMediaReturn
    \/ CompileOk
    \/ CompileFail
    \/ ReturnReport

Spec == Init /\ [][Next]_vars

(***************************************************************************)
(* Claims about the build orchestration (specification Spec).              *)
(***************************************************************************)
\* The position in inputs of the item with this status id / this URL.
PosOfId(id) == CHOOSE k \in 1..Len(inputs) : inputs[k].status_id = id

PosOfUrl(u) == CHOOSE k \in 1..Len(inputs) : inputs[k].url = u

ContentPos == [i \in 1..Len(contents) |-> PosOfId(contents[i].status_id)]

FailurePos == [i \in 1..Len(failures) |-> PosOfUrl(failures[i].url)]

Increasing(s) == \A i, j \in 1..Len(s) : i < j => s[i] < s[j]

\* Items whose extract_article call has ended.
Finished == IF pc = "extract" /\ attempt = 2 THEN Len(attempted) - 1
            ELSE Len(attempted)

\* C1: inputs are attempted one at a time in input-file order; with
\* continue_on_error every input whose extraction has ended is in exactly one
\* of contents and failures (one failure message per failed input), both kept
\* in input order, and every input is attempted once the loop is over; without
\* continue_on_error the first failure aborts the run: no failure is recorded,
\* no later input is attempted and no report exists.
C1_FailureIsolation ==
    /\ attempted = [k \in 1..Len(attempted) |-> k]
    /\ Increasing(ContentPos) /\ Increasing(FailurePos)
    /\ Range(ContentPos) \cap Range(FailurePos) = {}
    /\ continue_on_error =>
          /\ error # "RuntimeError: article"
          /\ Range(ContentPos) \cup Range(FailurePos) = 1..Finished
          /\ Len(contents) + Len(failures) = Finished
          /\ (pc # "extract" \/ idx > Len(inputs)) => Finished = Len(inputs)
    /\ ~continue_on_error =>
          /\ failures = <<>>
          /\ Range(ContentPos) = 1..Len(contents)
          /\ error = "RuntimeError: article" =>
                /\ pc = "raised"
                /\ report = <<>>
                /\ Len(attempted) = Len(contents) + 1
          /\ error # "RuntimeError: article" => Finished = Len(contents)

\* A failed article between two extracted ones, under continue_on_error.
C1_Witness ==
    /\ continue_on_error
    /\ pc = "media"
    /\ Len(inputs) = 3
    /\ Range(FailurePos) = {2}
    /\ Range(ContentPos) = {1, 3}

\* C2: extract_article visits the page at most twice per article; the second
\* visit happens only after a timeout of the first and uses twice its timeout;
\* a timeout of the second visit ends the article with the Timeout error; a
\* failure other than a timeout ends the article at once; every visit of a call
\* is for the item last handed over, and no item is handed over twice.
C2_RetryOnce ==
    /\ Len(visits) <= 2
    /\ \A i \in 1..Len(visits) : visits[i].item = Last(attempted)
    /\ \A i, j \in 1..Len(attempted) : i # j => attempted[i] # attempted[j]
    /\ Len(visits) >= 1 => visits[1].timeout = DefaultTimeoutSeconds
    /\ Len(visits) = 2 =>
          /\ visits[1].outcome = "Timeout"
          /\ visits[2].timeout = 2 * visits[1].timeout
    /\ (Len(visits) = 1 /\ visits[1].outcome = "Timeout") =>
          /\ pc = "extract" /\ attempt = 2 /\ idx = visits[1].item
          /\ timeout_s = 2 * visits[1].timeout
    /\ (Len(visits) >= 1 /\ Last(visits).outcome \notin {"ok", "Timeout"}) =>
          IF continue_on_error
          THEN Last(failures) = [url |-> inputs[Last(visits).item].url,
                                 kind |-> Last(visits).outcome]
          ELSE error = "RuntimeError: article"
    /\ (Len(visits) = 2 /\ visits[2].outcome = "Timeout") =>
          IF continue_on_error
          THEN /\ Last(failures) = [url |-> inputs[visits[2].item].url,
                                    kind |-> "Timeout"]
               /\ idx > visits[2].item
          ELSE error = "RuntimeError: article"

\* The second article timed out twice, after the first was processed.
C2_Witness ==
    /\ continue_on_error
    /\ Len(visits) = 2
    /\ visits[2].outcome = "Timeout"
    /\ visits[2].item = 2
    /\ idx = 3

\* The fetches build_issue makes when no asset fails: article by article, asset
\* by asset.
AllFetches ==
    Flatten([i \in 1..Len(contents) |->
        LET urls == NormalizedUrls(contents[i].media_urls)
        IN [j \in 1..Len(urls) |->
               [status_id |-> contents[i].status_id, url |-> urls[j]]]])

FetchedAssets == [i \in 1..Len(fetched) |->
                    [status_id |-> fetched[i].status_id, url |-> fetched[i].url]]

IsPrefix(s, t) == Len(s) <= Len(t) /\ s = SubSeq(t, 1, Len(s))

\* C3: a failed fetch of one asset ends build_issue with the media error,
\* whatever continue_on_error is: it is the last fetch made, it adds no failure
\* message, no report is returned and no compile has been or is made; and a
\* compile is made only after the media of every extracted article has been
\* fetched, article by article and asset by asset.
C3_MediaFailureFatal ==
    /\ \A i \in 1..Len(fetched) : ~fetched[i].ok =>
          /\ i = Len(fetched)
          /\ pc = "raised" /\ error = "MediaDownloadError"
          /\ compiles = <<>>
          /\ Len(report) = 1 => report[1].outputs = <<>>
          /\ Len(failures) = Len(attempted) - Len(contents)
    /\ error = "MediaDownloadError" => pc = "raised"
    /\ IsPrefix(FetchedAssets, AllFetches)
    /\ compiles # <<>> =>
          /\ FetchedAssets = AllFetches
          /\ Len(media_map) = Len(contents)
          /\ \A i \in 1..Len(fetched) : fetched[i].ok

\* The second asset of a later article fails under continue_on_error.
C3_Witness ==
    /\ continue_on_error
    /\ error = "MediaDownloadError"
    /\ Len(media_map) >= 1
    /\ m_asset = 2
    /\ Len(fetched) >= 3

\* The 3-digit decimal form of an index below 1000.
ThreeDigits(i) ==
    <<DigitChars[((i \div 100) % 10) + 1], DigitChars[((i \div 10) % 10) + 1],
      DigitChars[(i % 10) + 1]>>

\* C4: when build_issue returns in split mode with N extracted articles, it has
\* made N compiles, the i-th of the i-th extracted article alone, and
\* report.outputs holds N pairwise-distinct paths, the i-th being
\* <stem>-<i as 3 digits>-<status id>.pdf in the output directory.
C4_SplitOutputs ==
    (pc = "returned" /\ pagination = "split") =>
       /\ Len(compiles) = Len(contents)
       /\ Len(report[1].outputs) = Len(contents)
       /\ \A i \in 1..Len(contents) :
             /\ compiles[i].articles = <<contents[i].status_id>>
             /\ compiles[i].output = report[1].outputs[i]
             /\ report[1].outputs[i].parent = output.parent
             /\ report[1].outputs[i].name =
                   PathStem(output.name) \o <<"-">> \o ThreeDigits(i) \o <<"-">>
                   \o contents[i].status_id \o PdfSuffix
       /\ \A i, j \in 1..Len(contents) :
             i # j => report[1].outputs[i] # report[1].outputs[j]

\* Split mode returned two outputs after the first input had failed.
C4_Witness ==
    /\ pc = "returned"
    /\ pagination = "split"
    /\ Len(report[1].outputs) = 2
    /\ Len(failures) = 1
    /\ FailurePos = <<1>>

(***************************************************************************)
(* str primitives used by input.py and renderer.py.                        *)
(***************************************************************************)
\* str.isspace() on one character.
IsSpaceChar(c) == c \in {" ", "\t", "\n", "\r", "\f"}

RECURSIVE LStrip(_)
LStrip(s) == IF s # <<>> /\ IsSpaceChar(Head(s)) THEN LStrip(Tail(s)) ELSE s

RECURSIVE RStrip(_)
RStrip(s) ==
    IF s # <<>> /\ IsSpaceChar(Last(s)) THEN RStrip(SubSeq(s, 1, Len(s) - 1)) ELSE s

\* str.strip()
Strip(s) == LStrip(RStrip(s))

\* str.find(c): the first position of the character, 0 when absent.
Find(s, c) ==
    IF \E i \in 1..Len(s) : s[i] = c
    THEN CHOOSE i \in 1..Len(s) : s[i] = c /\ \A j \in 1..(i - 1) : s[j] # c
    ELSE 0

\* str.startswith(prefix)
StartsWith(s, prefix) ==
    Len(prefix) <= Len(s) /\ SubSeq(s, 1, Len(prefix)) = prefix

RECURSIVE SplitOn(_, _)
\* str.split(c) for a one-character separator
SplitOn(s, c) ==
    LET i == Find(s, c)
    IN IF i = 0 THEN <<s>>
       ELSE <<Slice(s, 1, i - 1)>> \o SplitOn(Slice(s, i + 1, Len(s)), c)

\* [x for x in xs if x]
RECURSIVE NonEmpty(_)
NonEmpty(xs) ==
    IF xs = <<>> THEN <<>>
    ELSE IF Head(xs) = <<>> THEN NonEmpty(Tail(xs))
         ELSE <<Head(xs)>> \o NonEmpty(Tail(xs))

\* str.isdigit()
IsDigitStr(s) == s # <<>> /\ \A i \in 1..Len(s) : IsDigitChar(s[i])

(***************************************************************************)
(* urllib.parse.urlparse, for URLs without brackets or ";".                *)
(***************************************************************************)
\* scheme_chars of urllib.parse
IsSchemeChar(c) ==
    IsLowerChar(c) \/ IsUpperChar(c) \/ IsDigitChar(c) \/ c \in {"+", "-", "."}

\* The first position at or after `from` of one of "/", "?", "#"; Len + 1 when
\* there is none (_splitnetloc).
NetlocEnd(s, from) ==
    IF \E i \in from..Len(s) : s[i] \in {"/", "?", "#"}
    THEN CHOOSE i \in from..Len(s) :
            /\ s[i] \in {"/", "?", "#"}
            /\ \A j \in from..(i - 1) : s[j] \notin {"/", "?", "#"}
    ELSE Len(s) + 1

UrlParse(u) ==
    LET i == Find(u, ":")
        hasScheme == /\ i > 1
                     /\ IsLowerChar(u[1]) \/ IsUpperChar(u[1])
                     /\ \A k \in 1..(i - 1) : IsSchemeChar(u[k])
        scheme == IF hasScheme THEN Lower(Slice(u, 1, i - 1)) ELSE <<>>
        rest1 == IF hasScheme THEN Slice(u, i + 1, Len(u)) ELSE u
        hasNetloc == StartsWith(rest1, <<"/", "/">>)
        e == NetlocEnd(rest1, 3)
        netloc == IF hasNetloc THEN Slice(rest1, 3, e - 1) ELSE <<>>
        rest2 == IF hasNetloc THEN Slice(rest1, e, Len(rest1)) ELSE rest1
        h == Find(rest2, "#")
        rest3 == IF h > 0 THEN Slice(rest2, 1, h - 1) ELSE rest2
        q == Find(rest3, "?")
    IN [scheme |-> scheme,
        netloc |-> netloc,
        path |-> IF q > 0 THEN Slice(rest3, 1, q - 1) ELSE rest3,
        query |-> IF q > 0 THEN Slice(rest3, q + 1, Len(rest3)) ELSE <<>>,
        fragment |-> IF h > 0 THEN Slice(rest2, h + 1, Len(rest2)) ELSE <<>>]

(***************************************************************************)
(* input.py                                                                *)
(***************************************************************************)
HttpScheme == <<"h", "t", "t", "p">>

HttpsScheme == <<"h", "t", "t", "p", "s">>

XCom == <<"x", ".", "c", "o", "m">>

TwitterCom == <<"t", "w", "i", "t", "t", "e", "r", ".", "c", "o", "m">>

Www == <<"w", "w", "w", ".">>

StatusWord == <<"s", "t", "a", "t", "u", "s">>

\* _ALLOWED_HOSTS
AllowedHosts == {XCom, Www \o XCom, TwitterCom, Www \o TwitterCom}

ParseOk(status_id) == [kind |-> "ok", status_id |-> status_id]

ParseError(why) == [kind |-> why, status_id |-> <<>>]

RECURSIVE ScanParts(_, _)
\* parse_status_id lines 23-30: the loop over the path parts from `index`
ScanParts(parts, index) ==
    IF index > Len(parts) THEN ParseError("no status segment")
    ELSE IF parts[index] = StatusWord /\ index + 1 <= Len(parts)
         THEN IF IsDigitStr(parts[index + 1])
              THEN ParseOk(parts[index + 1])
              ELSE ParseError("status id not numeric")
         ELSE ScanParts(parts, index + 1)

\* parse_status_id
ParseStatusId(u) ==
    LET p == UrlParse(Strip(u))
    IN IF p.scheme \notin {HttpScheme, HttpsScheme}
       THEN ParseError("unsupported scheme")
       ELSE IF Lower(p.netloc) \notin AllowedHosts
            THEN ParseError("unsupported host")
            ELSE ScanParts(NonEmpty(SplitOn(p.path, "/")), 1)

(***************************************************************************)
(* parse_status_id on URLs written from a scheme, a host, path segments    *)
(* and a tail (specification SpecUrl).                                     *)
(***************************************************************************)
MaxSegments == 4

SchemeChoices == {HttpsScheme, HttpScheme, <<"f", "t", "p">>}

HostChoices == {XCom, Www \o TwitterCom, <<"X", ".", "c", "o", "m">>,
                <<"e", ".", "i", "o">>}

SegmentChoices == {<<"a", "l">>, StatusWord, <<"1", "2", "3">>,
                   <<"1", "2", "a">>, <<>>}

TailChoices == {<<>>, <<"?", "/", "s", "t", "a", "t", "u", "s", "/", "9">>,
                <<"#", "x">>}

\* scheme://host/segment/.../segment tail
ComposeUrl(parts) ==
    parts.scheme \o <<":", "/", "/">> \o parts.host
    \o Flatten([i \in 1..Len(parts.segments) |-> <<"/">> \o parts.segments[i]])
    \o parts.tail

\* The build variables of a run that only exercises a pure function.
InitBuildIdle ==
    /\ inputs = <<>>
    /\ continue_on_error = FALSE
    /\ pagination = "continuous"
    /\ output = [parent |-> "dist", name |-> <<>>]
    /\ idx = 0
    /\ attempt = 0
    /\ timeout_s = 0
    /\ visits = <<>>
    /\ attempted = <<>>
    /\ contents = <<>>
    /\ failures = <<>>
    /\ report = <<>>
    /\ error = ""
    /\ m_article = 0
    /\ m_asset = 0
    /\ local_media = <<>>
    /\ media_map = <<>>
    /\ fetched = <<>>
    /\ c_index = 0
    /\ compiles = <<>>

idleBuildVars == <<inputs, continue_on_error, pagination, output, idx, attempt,
                   timeout_s, visits, attempted, contents, failures, report,
                   error, m_article, m_asset, local_media, media_map, fetched,
                   c_index, compiles>>

InitUrl ==
    /\ pc = "parse"
    /\ InitBuildIdle
    /\ InitBlocksIdle
    /\ InitMoreIdle
    /\ url_parts \in [scheme : SchemeChoices, host : HostChoices,
                      segments : SeqsUpTo(SegmentChoices, MaxSegments),
                      tail : TailChoices]
    /\ url = ComposeUrl(url_parts)
    /\ parsed = NotParsed
    /\ url_lines = <<>>
    /\ url_result = NotLoaded

\* parse_status_id(url) returns or raises ValueError.
ParseUrl ==
    /\ pc = "parse"
    /\ parsed' = ParseStatusId(url)
    /\ pc' = "parsed"
    /\ UNCHANGED <<idleBuildVars, url_parts, url, url_lines, url_result, blockVars, moreVars>>

NextUrl == ParseUrl

SpecUrl == InitUrl /\ [][NextUrl]_vars

\* The path segments that are not empty, as parse_status_id reads them.
GivenSegments == NonEmpty(url_parts.segments)

WellFormedStatusUrl ==
    /\ url_parts.scheme = HttpsScheme
    /\ url_parts.host = XCom
    /\ Len(url_parts.segments) = 3
    /\ url_parts.segments[1] # <<>>
    /\ url_parts.segments[2] = StatusWord
    /\ IsDigitStr(url_parts.segments[3])

HostOutsideAllowed == Lower(url_parts.host) \notin AllowedHosts

HasStatusIdSegment ==
    \E i \in 1..(Len(GivenSegments) - 1) :
        GivenSegments[i] = StatusWord /\ IsDigitStr(GivenSegments[i + 1])

\* C5: for every URL https://x.com/<user>/status/<digits>, <user> any
\* non-empty path segment (the word "status" included), parse_status_id
\* returns exactly <digits>; for every URL whose host is not an allowed one or
\* whose path has no /status/<id> segment it fails.
C5_ParseWellFormed ==
    pc = "parsed" =>
       /\ WellFormedStatusUrl => parsed = ParseOk(url_parts.segments[3])
       /\ (HostOutsideAllowed \/ ~HasStatusIdSegment) => parsed.kind # "ok"

\* What the code does do: the same, for every <user> other than "status".
C5_ExceptStatusUser ==
    pc = "parsed" =>
       /\ (WellFormedStatusUrl /\ url_parts.segments[1] # StatusWord)
             => parsed = ParseOk(url_parts.segments[3])
       /\ (WellFormedStatusUrl /\ url_parts.segments[1] = StatusWord)
             => parsed = ParseError("status id not numeric")
       /\ (HostOutsideAllowed \/ ~HasStatusIdSegment) => parsed.kind # "ok"

(***************************************************************************)
(* load_url_file on files of a few lines (specification SpecFile).         *)
(***************************************************************************)
MaxLines == 3

LineA111 ==
    <<"h", "t", "t", "p", "s", ":", "/", "/", "x", ".", "c", "o", "m",
      "/", "a", "/", "s", "t", "a", "t", "u", "s", "/", "1", "1", "1">>

LineB111 ==
    <<"h", "t", "t", "p", "s", ":", "/", "/", "t", "w", "i", "t", "t",
      "e", "r", ".", "c", "o", "m", "/", "b", "/", "s", "t", "a", "t",
      "u", "s", "/", "1", "1", "1", "?", "s", "=", "2", "0">>

LineA222 ==
    <<" ", " ", "h", "t", "t", "p", "s", ":", "/", "/", "x", ".", "c",
      "o", "m", "/", "a", "/", "s", "t", "a", "t", "u", "s", "/", "2",
      "2", "2", " ">>

LineComment ==
    <<"#", " ", "c">>

LineIndentedComment ==
    <<" ", "#", "x">>

LineBlank ==
    <<" ", " ">>

LineInvalid ==
    <<"h", "t", "t", "p", "s", ":", "/", "/", "x", ".", "c", "o", "m",
      "/", "a", "/", "i", "n", "v", "a", "l", "i", "d">>

LineChoices == {LineA111,
                LineB111,
                LineA222,
                LineComment,
                LineIndentedComment,
                LineBlank,
                LineInvalid}

\* load_url_file line 44: not line or line.startswith("#")
IsSkippedLine(line) == line = <<>> \/ StartsWith(line, <<"#">>)

LineNumber_FromZero(i) == i - 1

\* enumerate(..., start=1): the number of the i-th line
LineNumber(i) == i

SeenKey_Url(line, status_id) == line

\* load_url_file lines 52-55: what `seen` holds
SeenKey(line, status_id) == status_id

RECURSIVE LoadLines(_, _, _, _)
\* load_url_file lines 42-61: the loop from the i-th line, then the return
LoadLines(lines, i, seen, items) ==
    IF i > Len(lines)
    THEN IF items = <<>>
         THEN [kind |-> "no valid urls", items |-> <<>>, line |-> 0]
         ELSE [kind |-> "ok", items |-> items, line |-> 0]
    ELSE LET line == Strip(lines[i])
             r == ParseStatusId(line)
         IN IF IsSkippedLine(line) THEN LoadLines(lines, i + 1, seen, items)
            ELSE IF r.kind # "ok"
                 THEN [kind |-> "invalid url", items |-> <<>>,
                       line |-> LineNumber(i)]
                 ELSE IF SeenKey(line, r.status_id) \in seen
                      THEN LoadLines(lines, i + 1, seen, items)
                      ELSE LoadLines(lines, i + 1,
                                     seen \cup {SeenKey(line, r.status_id)},
                                     Append(items, [url |-> line,
                                                    status_id |-> r.status_id]))

\* load_url_file, for a file that exists
LoadUrlFile(lines) == LoadLines(lines, 1, {}, <<>>)

InitFile ==
    /\ pc = "load"
    /\ InitBuildIdle
    /\ InitBlocksIdle
    /\ InitMoreIdle
    /\ url_parts = NoUrlParts
    /\ url = <<>>
    /\ parsed = NotParsed
    /\ url_lines \in SeqsUpTo(LineChoices, MaxLines)
    /\ url_result = NotLoaded

\* load_url_file(path) returns or raises ValueError.
LoadFile ==
    /\ pc = "load"
    /\ url_result' = LoadUrlFile(url_lines)
    /\ pc' = "loaded"
    /\ UNCHANGED <<idleBuildVars, url_parts, url, parsed, url_lines, blockVars, moreVars>>

NextFile == LoadFile

SpecFile == InitFile /\ [][NextFile]_vars

\* The lines of the file that are neither blank nor comments, by position.
UrlLinePos == {i \in 1..Len(url_lines) : ~IsSkippedLine(Strip(url_lines[i]))}

IdOfLine(i) == ParseStatusId(Strip(url_lines[i]))

IsUrlLine(raw_line) == ~IsSkippedLine(Strip(raw_line))

MalformedPos == {i \in UrlLinePos : IdOfLine(i).kind # "ok"}

Min(S) == CHOOSE x \in S : \A y \in S : x <= y

\* The first line of the file that carries this status id.
FirstLineOf(id) == Min({i \in UrlLinePos : IdOfLine(i) = ParseOk(id)})

\* C6: the items load_url_file returns have pairwise distinct status ids, one
\* per status id of the file, ordered by first occurrence, each carrying the
\* URL of the first line with its id; lines repeating an id raise no error.
C6_DedupByStatusId ==
    pc = "loaded" =>
       /\ (MalformedPos = {} /\ UrlLinePos # {}) => url_result.kind = "ok"
       /\ url_result.kind = "ok" =>
             LET items == url_result.items IN
             /\ \A i, j \in 1..Len(items) :
                   i # j => items[i].status_id # items[j].status_id
             /\ {items[k].status_id : k \in 1..Len(items)}
                   = {IdOfLine(i).status_id : i \in UrlLinePos}
             /\ \A k \in 1..Len(items) :
                   items[k].url = Strip(url_lines[FirstLineOf(items[k].status_id)])
             /\ \A j, k \in 1..Len(items) :
                   j < k => FirstLineOf(items[j].status_id)
                               < FirstLineOf(items[k].status_id)

\* Three URL lines, two of them with one status id and different text.
C6_Witness ==
    /\ pc = "loaded"
    /\ url_result.kind = "ok"
    /\ Len(url_lines) = 3
    /\ Len(url_result.items) = 2
    /\ url_result.items[1].url = LineB111
    /\ Strip(url_lines[2]) = LineA111

\* C7: blank lines and lines starting with "#" are ignored; if another line is
\* not a valid status URL the load fails, returning no list, with an error
\* naming the 1-based position in the file of the first such line.
C7_MalformedLineNumber ==
    pc = "loaded" =>
       /\ MalformedPos # {} =>
             url_result = [kind |-> "invalid url", items |-> <<>>,
                           line |-> Min(MalformedPos)]
       /\ MalformedPos = {} =>
             /\ url_result.kind \in {"ok", "no valid urls"}
             /\ url_result.line = 0
             /\ \A k \in 1..Len(url_result.items) :
                   \E i \in UrlLinePos : url_result.items[k].url = Strip(url_lines[i])
             /\ url_result.kind = "no valid urls" <=> UrlLinePos = {}
             /\ url_result = LoadUrlFile(SelectSeq(url_lines, IsUrlLine))

\* A malformed third line after a comment and a valid URL.
C7_Witness ==
    /\ pc = "loaded"
    /\ url_lines = <<LineComment, LineA111, LineInvalid>>
    /\ url_result.kind = "invalid url"
    /\ url_result.line = 3

(***************************************************************************)
(* renderer.py: the block classifier.                                      *)
(***************************************************************************)
\* language=None of a RenderBlock
NoLanguage == <<"None">>

\* RenderBlock(kind=..., body=..., language=...)
RenderBlock(kind, body, language) ==
    [kind |-> kind, body |-> body, language |-> language]

\* The elements of s at the positions of the set, in order.
SubSeqAt(s, keep) ==
    [k \in 1..Cardinality(keep) |->
        s[CHOOSE i \in keep : Cardinality({j \in keep : j <= i}) = k]]

\* text.replace("\r\n", "\n"): every "\r" that a "\n" follows is dropped
ReplaceCRLF(s) ==
    IF "\r" \notin Range(s) THEN s
    ELSE SubSeqAt(s, {i \in 1..Len(s) :
                        ~(s[i] = "\r" /\ i < Len(s) /\ s[i + 1] = "\n")})

RECURSIVE LStripNL(_)
LStripNL(s) == IF s # <<>> /\ Head(s) = "\n" THEN LStripNL(Tail(s)) ELSE s

RECURSIVE RStripNL(_)
RStripNL(s) ==
    IF s # <<>> /\ Last(s) = "\n" THEN RStripNL(SubSeq(s, 1, Len(s) - 1)) ELSE s

\* str.strip("\n")
StripNL(s) == LStripNL(RStripNL(s))

\* The line boundaries of str.splitlines() among the characters modelled.
IsLineBreak(c) == c \in {"\n", "\r", "\f"}

\* The first position holding a character of the set, 0 when there is none.
FindIn(s, C) ==
    IF \E i \in 1..Len(s) : s[i] \in C
    THEN CHOOSE i \in 1..Len(s) : s[i] \in C /\ \A j \in 1..(i - 1) : s[j] \notin C
    ELSE 0

RECURSIVE SplitLines(_)
\* str.splitlines()
SplitLines(s) ==
    IF s = <<>> THEN <<>>
    ELSE LET i == FindIn(s, {"\n", "\r", "\f"})
             w == IF i > 0 /\ i < Len(s) /\ s[i] = "\r" /\ s[i + 1] = "\n"
                  THEN 2 ELSE 1
         IN IF i = 0 THEN <<s>>
            ELSE <<Slice(s, 1, i - 1)>> \o SplitLines(Slice(s, i + w, Len(s)))

RECURSIVE StrippedNonBlank(_)
StrippedNonBlank(ls) ==
    IF ls = <<>> THEN <<>>
    ELSE IF Strip(Head(ls)) = <<>> THEN StrippedNonBlank(Tail(ls))
         ELSE <<Strip(Head(ls))>> \o StrippedNonBlank(Tail(ls))

\* [line.strip() for line in chunk.splitlines() if line.strip()]
NonBlankLines(chunk) == StrippedNonBlank(SplitLines(chunk))

RECURSIVE JoinWith(_, _)
\* sep.join(parts)
JoinWith(parts, sep) ==
    IF parts = <<>> THEN <<>>
    ELSE IF Len(parts) = 1 THEN parts[1]
         ELSE parts[1] \o sep \o JoinWith(Tail(parts), sep)

\* "\n\n" in s
HasBlankLine(s) == \E i \in 1..(Len(s) - 1) : s[i] = "\n" /\ s[i + 1] = "\n"

\* The length of the run of the character that starts at position i.
RECURSIVE RunLength(_, _, _)
RunLength(s, i, C) ==
    IF i <= Len(s) /\ s[i] \in C THEN 1 + RunLength(s, i + 1, C) ELSE 0

RECURSIVE SplitBlankRuns(_)
\* re.split(r"\n{2,}", s)
SplitBlankRuns(s) ==
    IF ~HasBlankLine(s) THEN <<s>>
    ELSE LET i == CHOOSE k \in 1..(Len(s) - 1) :
                     /\ s[k] = "\n" /\ s[k + 1] = "\n"
                     /\ \A j \in 1..(k - 1) : ~(s[j] = "\n" /\ s[j + 1] = "\n")
             n == RunLength(s, i, {"\n"})
         IN <<Slice(s, 1, i - 1)>> \o SplitBlankRuns(Slice(s, i + n, Len(s)))

RECURSIVE SumLen(_)
SumLen(ls) == IF ls = <<>> THEN 0 ELSE Len(Head(ls)) + SumLen(Tail(ls))

\* _expand_paragraph_chunks line 122, with average = sum / len
AverageLimit == 140

MaxLengthLimit == 220

KeepLinesSeparate(lines) ==
    \/ SumLen(lines) > AverageLimit * Len(lines)
    \/ \E i \in 1..Len(lines) : Len(lines[i]) > MaxLengthLimit

\* _expand_paragraph_chunks lines 114-125: what one base chunk expands to
ExpandChunk(chunk) ==
    LET lines == NonBlankLines(chunk)
    IN IF Len(lines) <= 1
       THEN IF lines # <<>> THEN lines ELSE <<Strip(chunk)>>
       ELSE IF KeepLinesSeparate(lines) THEN lines
            ELSE <<JoinWith(lines, <<" ">>)>>

RECURSIVE StripNLNonBlank(_)
\* [chunk.strip("\n") for chunk in chunks if chunk.strip()]
StripNLNonBlank(chunks) ==
    IF chunks = <<>> THEN <<>>
    ELSE IF Strip(Head(chunks)) = <<>> THEN StripNLNonBlank(Tail(chunks))
         ELSE <<StripNL(Head(chunks))>> \o StripNLNonBlank(Tail(chunks))

\* _expand_paragraph_chunks
ExpandParagraphChunks(segment) ==
    LET stripped_segment == StripNL(segment)
        base_chunks == IF HasBlankLine(stripped_segment)
                       THEN StripNLNonBlank(SplitBlankRuns(stripped_segment))
                       ELSE <<stripped_segment>>
    IN IF stripped_segment = <<>> THEN <<>>
       ELSE NonEmpty(Flatten([i \in 1..Len(base_chunks) |->
                                 ExpandChunk(base_chunks[i])]))

CommandVerbs ==
    {<<"n", "p", "m">>,
     <<"p", "n", "p", "m">>,
     <<"y", "a", "r", "n">>,
     <<"u", "v">>,
     <<"p", "y", "t", "h", "o", "n">>,
     <<"p", "i", "p">>,
     <<"g", "i", "t">>,
     <<"n", "p", "x">>,
     <<"n", "o", "d", "e">>,
     <<"c", "u", "r", "l">>,
     <<"b", "a", "s", "h">>,
     <<"s", "h">>,
     <<"e", "x", "p", "o", "r", "t">>,
     <<"s", "e", "t">>}

\* _HEADING_RE: 1 to 3 "#", whitespace, the rest of the line
HeadingLevel(line) == RunLength(line, 1, {"#"})

HeadingMatch(line) ==
    LET n == HeadingLevel(line)
    IN 1 <= n /\ n <= 3 /\ n < Len(line) /\ IsSpaceChar(line[n + 1])

\* heading_match.group(2).strip()
HeadingText(line) == Strip(Slice(line, HeadingLevel(line) + 1, Len(line)))

\* _TITLE_HEADING_RE, re.IGNORECASE
TitleHeadingMatch(line) ==
    LET lower == Lower(line)
        chapter == <<"c", "h", "a", "p", "t", "e", "r">>
        ws == RunLength(lower, 8, {" ", "\t", "\n", "\r", "\f"})
        ds == RunLength(lower, 8 + ws, Range(DigitChars))
    IN \/ /\ StartsWith(lower, chapter)
          /\ ws >= 1 /\ ds >= 1
          /\ 8 + ws + ds <= Len(lower)
          /\ lower[8 + ws + ds] \in {":", "."}
       \/ lower = <<"c", "o", "n", "c", "l", "u", "s", "i", "o", "n">>
       \/ StartsWith(lower, <<"a", "p", "p", "e", "n", "d", "i", "x">>)

\* str.isupper()
IsUpperStr(s) ==
    /\ \E i \in 1..Len(s) : IsUpperChar(s[i])
    /\ \A i \in 1..Len(s) : ~IsLowerChar(s[i])

\* _COMMAND_LINE_RE, re.IGNORECASE
CommandLineMatch(line) ==
    \/ StartsWith(line, <<"$">>)
    \/ \E verb \in CommandVerbs :
          /\ StartsWith(Lower(line), verb)
          /\ Len(line) > Len(verb)
          /\ IsSpaceChar(line[Len(verb) + 1])

\* _ULIST_RE
UListMatch(line) ==
    Len(line) >= 2 /\ line[1] \in {"-", "*"} /\ IsSpaceChar(line[2])

\* _OLIST_RE
OListMatch(line) ==
    LET ds == RunLength(line, 1, Range(DigitChars))
    IN /\ ds >= 1
       /\ ds + 2 <= Len(line)
       /\ line[ds + 1] \in {".", ")"}
       /\ IsSpaceChar(line[ds + 2])

\* re.sub(_ULIST_RE, "", line, count=1).strip()
UListItem(line) == Strip(Slice(line, 2, Len(line)))

\* re.sub(_OLIST_RE, "", line, count=1).strip()
OListItem(line) ==
    Strip(Slice(line, RunLength(line, 1, Range(DigitChars)) + 2, Len(line)))

\* sum(1 for line in lines if _COMMAND_LINE_RE.match(line))
CommandLikeCount(lines) == Cardinality({i \in 1..Len(lines) : CommandLineMatch(lines[i])})

\* _parse_plain_text_segment lines 135-169: the blocks of one chunk
ClassifyChunk(chunk) ==
    LET lines == NonBlankLines(chunk)
        line == lines[1]
    IN IF lines = <<>> THEN <<>>
       ELSE IF Len(lines) = 1 /\ HeadingMatch(line) /\ HeadingText(line) # <<>>
       THEN <<RenderBlock("heading", HeadingText(line), Digits(HeadingLevel(line)))>>
       ELSE IF /\ Len(lines) = 1
               /\ \/ TitleHeadingMatch(line)
                  \/ IsUpperStr(line) /\ 3 <= Len(line) /\ Len(line) <= 90
       THEN <<RenderBlock("heading", line, <<"2">>)>>
       ELSE IF CommandLikeCount(lines) >= 2
       THEN <<RenderBlock("code", JoinWith(lines, <<"\n">>), NoLanguage)>>
       ELSE IF \A i \in 1..Len(lines) : UListMatch(lines[i])
       THEN <<RenderBlock("ulist",
                JoinWith([i \in 1..Len(lines) |-> UListItem(lines[i])], <<"\n">>),
                NoLanguage)>>
       ELSE IF \A i \in 1..Len(lines) : OListMatch(lines[i])
       THEN <<RenderBlock("olist",
                JoinWith([i \in 1..Len(lines) |-> OListItem(lines[i])], <<"\n">>),
                NoLanguage)>>
       ELSE <<RenderBlock("text", JoinWith(lines, <<"\n">>), NoLanguage)>>

\* _parse_plain_text_segment
ParsePlainTextSegment(segment) ==
    LET paragraph_chunks == ExpandParagraphChunks(segment)
    IN Flatten([i \in 1..Len(paragraph_chunks) |->
                   ClassifyChunk(paragraph_chunks[i])])

(***************************************************************************)
(* _CODE_FENCE_RE and _parse_content_blocks.                               *)
(***************************************************************************)
\* The character U+0060, which a TLA+ string literal cannot hold.
Backtick == "BACKTICK"

Fence == <<Backtick, Backtick, Backtick>>

\* [A-Za-z0-9_+-]
IsLangChar(c) ==
    IsLowerChar(c) \/ IsUpperChar(c) \/ IsDigitChar(c) \/ c \in {"_", "+", "-"}

FenceAtPos(s, p) == p + 2 <= Len(s) /\ SubSeq(s, p, p + 2) = Fence

\* The first position at or after `from` where a triple marker starts, 0 when
\* there is none.
NextMarker(s, from) ==
    IF \E p \in from..Len(s) : FenceAtPos(s, p)
    THEN CHOOSE p \in from..Len(s) :
            FenceAtPos(s, p) /\ \A q \in from..(p - 1) : ~FenceAtPos(s, q)
    ELSE 0

\* Where the code group starts if _CODE_FENCE_RE matches at p: after the
\* marker, the longest language run and the newline.
CodeStart(s, p) ==
    p + 3 + RunLength(s, p + 3, {c \in Range(s) : IsLangChar(c)}) + 1

\* _CODE_FENCE_RE matches at position p
FenceMatchesAt(s, p) ==
    /\ FenceAtPos(s, p)
    /\ CodeStart(s, p) - 1 <= Len(s)
    /\ s[CodeStart(s, p) - 1] = "\n"
    /\ NextMarker(s, CodeStart(s, p)) > 0

\* The match of _CODE_FENCE_RE at p: the span and the two groups.
FenceMatch(s, p) ==
    LET c == CodeStart(s, p)
        close == NextMarker(s, c)
    IN [start |-> p, end |-> close + 2,
        lang |-> Slice(s, p + 3, c - 2),
        code |-> Slice(s, c, close - 1)]

\* The start of the leftmost match at or after `from`, 0 when there is none
\* (one step of finditer).
NextFenceStart(s, from) ==
    IF \E p \in from..Len(s) : FenceMatchesAt(s, p)
    THEN CHOOSE p \in from..Len(s) :
            FenceMatchesAt(s, p) /\ \A q \in from..(p - 1) : ~FenceMatchesAt(s, q)
    ELSE 0

CodeBlockOf_KeepNewlines(lang, code) ==
    IF StripNL(code) = <<>> THEN <<>>
    ELSE <<RenderBlock("code", code, IF lang = <<>> THEN NoLanguage ELSE lang)>>

\* _parse_content_blocks lines 186-189: the block of one fence, if any
CodeBlockOf(lang, code) ==
    LET language == IF Strip(lang) = <<>> THEN NoLanguage ELSE Strip(lang)
        body == StripNL(code)
    IN IF body = <<>> THEN <<>> ELSE <<RenderBlock("code", body, language)>>

RECURSIVE FenceLoop(_, _)
\* _parse_content_blocks lines 182-194: the loop from `cursor`, then the
\* trailing text
FenceLoop(normalized, cursor) ==
    LET p == NextFenceStart(normalized, cursor)
        m == FenceMatch(normalized, p)
    IN IF p = 0
       THEN ParsePlainTextSegment(Slice(normalized, cursor, Len(normalized)))
       ELSE ParsePlainTextSegment(Slice(normalized, cursor, m.start - 1))
            \o CodeBlockOf(m.lang, m.code)
            \o FenceLoop(normalized, m.end + 1)

\* _parse_content_blocks
ParseContentBlocks(t) ==
    LET normalized == Strip(ReplaceCRLF(t))
        found == FenceLoop(normalized, 1)
    IN IF normalized = <<>> THEN <<>>
       ELSE IF found = <<>>
            THEN <<RenderBlock("text", normalized, NoLanguage)>>
            ELSE found

(***************************************************************************)
(* _parse_content_blocks on texts written from lines and fenced spans      *)
(* (specification SpecBlocks).                                             *)
(***************************************************************************)
MaxParts == 4

LinePart(body) == [kind |-> "line", lang |-> <<>>, body |-> body]

FencePart(lang, code) == [kind |-> "fence", lang |-> lang, body |-> code]

\* A list line longer than MaxLengthLimit.
LongListLine == <<"-", " ">> \o [i \in 1..MaxLengthLimit |-> "x"]

TextLineChoices ==
    {LinePart(<<"-", " ", "a">>), LinePart(<<"*", " ", "b">>),
     LinePart(<<"$", " ", "l">>), LinePart(<<"n", "p", "m", " ", "i">>),
     LinePart(<<"#", " ", "T">>), LinePart(<<"x", " ", "y">>), LinePart(<<>>)}

\* Paragraphs with a line longer than MaxLengthLimit.
LongLineTexts ==
    {<<LinePart(LongListLine)>>,
     <<LinePart(LongListLine), LinePart(LongListLine)>>,
     <<LinePart(<<"-", " ", "a">>), LinePart(LongListLine)>>}

FenceChoices ==
    {FencePart(<<"p", "y">>, <<"p", "\n">>),
     FencePart(<<>>, <<"-", " ", "a", "\n", "-", " ", "b", "\n">>),
     FencePart(<<>>, <<"\n">>)}

\* A line with its newline; a fenced span from its opening to its closing marker.
RenderPart(part) ==
    IF part.kind = "line" THEN part.body \o <<"\n">>
    ELSE Fence \o part.lang \o <<"\n">> \o part.body \o Fence

ComposeText(parts) == Flatten([i \in 1..Len(parts) |-> RenderPart(parts[i])])

InitBlocks ==
    /\ pc = "classify"
    /\ InitBuildIdle
    /\ InitInputIdle
    /\ InitMoreIdle
    /\ text_parts \in SeqsUpTo(TextLineChoices \cup FenceChoices, MaxParts)
                        \cup LongLineTexts
    /\ text = ComposeText(text_parts)
    /\ blocks = <<>>

\* _parse_content_blocks(text) returns.
Classify ==
    /\ pc = "classify"
    /\ blocks' = ParseContentBlocks(text)
    /\ pc' = "classified"
    /\ UNCHANGED <<idleBuildVars, inputVars, text_parts, text, moreVars>>

NextBlocks == Classify

SpecBlocks == InitBlocks /\ [][NextBlocks]_vars

OnlyLines(P(_)) ==
    /\ Len(text_parts) >= 2
    /\ \A i \in 1..Len(text_parts) :
          text_parts[i].kind = "line" /\ P(text_parts[i].body)

GivenLines == [i \in 1..Len(text_parts) |-> text_parts[i].body]

\* The items of a list block, as _render_list_block reads them.
ItemsOf(block) == NonBlankLines(block.body)

\* C8: a text of k >= 2 consecutive lines that each start with "-" or "*" and
\* whitespace is classified as exactly one unordered-list block whose items
\* are the k lines without their markers, in order.
C8_UnorderedListItems ==
    (pc = "classified" /\ OnlyLines(UListMatch)) =>
       /\ Len(blocks) = 1
       /\ blocks[1].kind = "ulist"
       /\ ItemsOf(blocks[1]) = [i \in 1..Len(GivenLines) |-> UListItem(GivenLines[i])]

\* C9: a chunk of two or more lines that each begin with a shell-command-like
\* prefix is classified as one code block with no language tag whose body is
\* those lines, one per line.
C9_CommandListing ==
    (pc = "classified" /\ OnlyLines(CommandLineMatch)) =>
       blocks = <<RenderBlock("code", JoinWith(GivenLines, <<"\n">>), NoLanguage)>>

\* The code block a fenced span stands for, if its content is more than newlines.
FenceBlock(part) ==
    IF StripNL(part.body) = <<>> THEN <<>>
    ELSE <<[kind |-> "code", body |-> StripNL(part.body),
            language |-> IF part.lang = <<>> THEN NoLanguage ELSE part.lang]>>

RECURSIVE ExpectedBlocks(_, _)
\* Fence blocks in place, and between them what the plain-text rules make of
\* the lines gathered since the last fenced span.
ExpectedBlocks(parts, plain) ==
    IF parts = <<>> THEN ParsePlainTextSegment(plain)
    ELSE IF Head(parts).kind = "line"
         THEN ExpectedBlocks(Tail(parts), plain \o RenderPart(Head(parts)))
         ELSE ParsePlainTextSegment(plain) \o FenceBlock(Head(parts))
              \o ExpectedBlocks(Tail(parts), <<>>)

\* C10: each fenced span with a non-empty body yields one code block, tagged
\* with its language (no tag when it has none), whose body is the fenced
\* content without its surrounding newlines; these blocks and the blocks of
\* the text before, between and after them keep the order of the source, and
\* fenced content is not classified by the plain-text rules.
C10_FencedCode ==
    pc = "classified" =>
       LET expected == ExpectedBlocks(text_parts, <<>>)
       IN IF expected # <<>> THEN blocks = expected
          ELSE \A i \in 1..Len(blocks) : blocks[i].kind # "code"

\* Two fenced spans, the second holding list-like lines, between a paragraph
\* and a heading.
C10_Witness ==
    /\ pc = "classified"
    /\ Len(text_parts) = 4
    /\ text_parts[2] = FencePart(<<"p", "y">>, <<"p", "\n">>)
    /\ text_parts[3].kind = "fence"
    /\ [i \in 1..Len(blocks) |-> blocks[i].kind] = <<"text", "code", "code", "heading">>
    /\ blocks[2].language = <<"p", "y">>
    /\ blocks[3] = RenderBlock("code", <<"-", " ", "a", "\n", "-", " ", "b">>, NoLanguage)

(***************************************************************************)
(* The text sanitizer (extractor.py, _sanitize_text).                      *)
(***************************************************************************)
\* The character U+00B7 (middle dot).
Middot == "MIDDOT"

\* re: the position after a run of \s* starting at p.
SkipSpaces(s, p) ==
    IF \E i \in p..Len(s) : ~IsSpaceChar(s[i])
    THEN CHOOSE i \in p..Len(s) :
            ~IsSpaceChar(s[i]) /\ \A j \in p..(i - 1) : IsSpaceChar(s[j])
    ELSE Len(s) + 1

\* re.IGNORECASE: the literal stands at position p of s.
LiteralAt(s, p, literal) ==
    /\ p >= 1
    /\ p + Len(literal) - 1 <= Len(s)
    /\ Lower(SubSeq(s, p, p + Len(literal) - 1)) = Lower(literal)

\* The first position >= p holding the character, 0 when there is none.
FindFrom(s, p, c) ==
    IF \E i \in p..Len(s) : s[i] = c
    THEN CHOOSE i \in p..Len(s) : s[i] = c /\ \A j \in p..(i - 1) : s[j] # c
    ELSE 0

IfWord == <<"i", "f">>

AlreadyRequestedWord == 
    <<"(", "!", "a", "l", "r", "e", "a", "d", "y", "R", "e", "q", "u", "e",
      "s", "t", "e", "d", ")">>

PostCommentWord == 
    <<"p", "o", "s", "t", "C", "o", "m", "m", "e", "n", "t">>

ReviewHarnessWord == 
    <<"@", "r", "e", "v", "i", "e", "w", "-", "h", "a", "r", "n", "e", "s",
      "s", ":">>

TriggerWord == <<"$", "{", "t", "r", "i", "g", "g", "e", "r", "}">>

ArtifactPatternCount == 4

\* _ARTIFACT_PATTERNS[k - 1]: the last position of the match that starts at
\* p, 0 when the pattern does not match there.
ArtifactMatchEnd(k, s, p) ==
    CASE k = 1 ->
           \* if\s*\(!alreadyRequested\)\s*\{[\s\S]*?\}
           IF ~LiteralAt(s, p, IfWord) THEN 0
           ELSE LET a == SkipSpaces(s, p + Len(IfWord))
                IN IF ~LiteralAt(s, a, AlreadyRequestedWord) THEN 0
                   ELSE LET b == SkipSpaces(s, a + Len(AlreadyRequestedWord))
                        IN IF b <= Len(s) /\ s[b] = "{"
                           THEN FindFrom(s, b + 1, "}")
                           ELSE 0
      [] k = 2 ->
           \* postComment\s*\([\s\S]*?\)
           IF ~LiteralAt(s, p, PostCommentWord) THEN 0
           ELSE LET a == SkipSpaces(s, p + Len(PostCommentWord))
                IN IF a <= Len(s) /\ s[a] = "("
                   THEN FindFrom(s, a + 1, ")")
                   ELSE 0
      [] k = 3 ->
           \* @review-harness:[^\s]+
           IF ~LiteralAt(s, p, ReviewHarnessWord) THEN 0
           ELSE LET a == p + Len(ReviewHarnessWord)
                    e == IF \E i \in a..Len(s) : IsSpaceChar(s[i])
                         THEN FindIn(Slice(s, a, Len(s)), {" ", "\t", "\n", "\r", "\f"})
                              + a - 2
                         ELSE Len(s)
                IN IF e >= a THEN e ELSE 0
      [] OTHER ->
           \* \$\{trigger\}
           IF LiteralAt(s, p, TriggerWord) THEN p + Len(TriggerWord) - 1 ELSE 0

RECURSIVE SubArtifact(_, _, _)
\* _ARTIFACT_PATTERNS[k - 1].sub(" ", s), scanning from position p: the text
\* up to the leftmost match is kept, the match becomes a space, and the scan
\* goes on after the match.
SubArtifact(k, s, p) ==
    LET starts == {q \in p..Len(s) : ArtifactMatchEnd(k, s, q) > 0}
    IN IF starts = {} THEN Slice(s, p, Len(s))
       ELSE LET q == CHOOSE x \in starts : \A y \in starts : x <= y
            IN Slice(s, p, q - 1) \o <<" ">>
                  \o SubArtifact(k, s, ArtifactMatchEnd(k, s, q) + 1)

RECURSIVE BlankArtifacts(_, _)
\* for pattern in _ARTIFACT_PATTERNS: sanitized_source = pattern.sub(" ", ...)
BlankArtifacts(s, k) ==
    IF k > ArtifactPatternCount THEN s
    ELSE BlankArtifacts(SubArtifact(k, s, 1), k + 1)

IsMetricChar(c) == IsDigitChar(c) \/ c \in {".", ","}

IsMagnitudeChar(c) == LowerChar(c) \in {"k", "m", "b", "t"}

\* The position after the run of characters satisfying [\d.,] that starts at p.
MetricRunEnd(s, p) ==
    IF \E i \in p..Len(s) : ~IsMetricChar(s[i])
    THEN CHOOSE i \in p..Len(s) :
            ~IsMetricChar(s[i]) /\ \A j \in p..(i - 1) : IsMetricChar(s[j])
    ELSE Len(s) + 1

RECURSIVE PrefixMetricsEnd(_, _)
\* (?:\s+[\d.,]+(?:[KMBT])?)*\s+ read from position q, which follows the
\* handle or a metric token: the position after the match, 0 when it fails.
\* A token is taken only when white space follows it, else the match backs
\* off to the white space before it.
PrefixMetricsEnd(s, q) ==
    LET r == SkipSpaces(s, q)
        d == MetricRunEnd(s, r)
        e == IF d <= Len(s) /\ IsMagnitudeChar(s[d]) THEN d + 1 ELSE d
    IN IF r = q THEN 0
       ELSE IF d > r /\ e <= Len(s) /\ IsSpaceChar(s[e])
            THEN PrefixMetricsEnd(s, e)
            ELSE r

\* author_prefix.sub("", sanitized_source): the pattern is anchored at the
\* start of the text.
StripAuthorPrefix(s, author_name, author_handle) ==
    LET a == SkipSpaces(s, 1)
        b == a + Len(author_name)
        c == SkipSpaces(s, b)
        d == c + Len(author_handle)
        e == IF LiteralAt(s, a, author_name) /\ c > b
                 /\ LiteralAt(s, c, author_handle)
              THEN PrefixMetricsEnd(s, d) ELSE 0
    IN IF e = 0 THEN s ELSE Slice(s, e, Len(s))

WantToPublishPhrase ==
    <<"W", "a", "n", "t", " ", "t", "o", " ", "p", "u", "b", "l", "i", "s",
      "h", " ", "y", "o", "u", "r", " ", "o", "w", "n", " ", "A", "r", "t",
      "i", "c", "l", "e", "?">>

UpgradePhrase ==
    <<"U", "p", "g", "r", "a", "d", "e", " ", "t", "o", " ", "P", "r", "e",
      "m", "i", "u", "m">>

ReadWord == <<"R", "e", "a", "d">>

RepliesWord == <<"r", "e", "p", "l", "i", "e", "s">>

ViewsWord == <<"V", "i", "e", "w", "s">>

\* The position after the run of digits that starts at p.
DigitRunEnd(s, p) ==
    IF \E i \in p..Len(s) : ~IsDigitChar(s[i])
    THEN CHOOSE i \in p..Len(s) :
            ~IsDigitChar(s[i]) /\ \A j \in p..(i - 1) : IsDigitChar(s[j])
    ELSE Len(s) + 1

\* Read\s+\d+\s+replies, the whole line
ReadRepliesMatch(line) ==
    LET a == 1 + Len(ReadWord)
        b == SkipSpaces(line, a)
        c == DigitRunEnd(line, b)
        d == SkipSpaces(line, c)
    IN /\ LiteralAt(line, 1, ReadWord)
       /\ b > a
       /\ c > b
       /\ d > c
       /\ Lower(Slice(line, d, Len(line))) = Lower(RepliesWord)

\* _STOP_AT_LINE_RE.match(stripped)
StopAtLineMatch(line) ==
    \/ Lower(line) = Lower(WantToPublishPhrase)
    \/ Lower(line) = Lower(UpgradePhrase)
    \/ ReadRepliesMatch(line)

\* \s?(AM|PM)\s*<middot> read from position p
MeridiemMatch(line, p) ==
    \E q \in {p, p + 1} :
       /\ q = p + 1 => (p <= Len(line) /\ IsSpaceChar(line[p]))
       /\ \/ LiteralAt(line, q, <<"A", "M">>)
          \/ LiteralAt(line, q, <<"P", "M">>)
       /\ LET m == SkipSpaces(line, q + 2)
          IN m <= Len(line) /\ line[m] = Middot

\* _TIMESTAMP_LINE_RE.match(stripped): ^\d{1,2}:\d{2}\s?(AM|PM)\s*<middot>
TimestampLineMatch(line) ==
    \E h \in {1, 2} :
       /\ Len(line) >= h + 3
       /\ \A i \in 1..h : IsDigitChar(line[i])
       /\ line[h + 1] = ":"
       /\ IsDigitChar(line[h + 2])
       /\ IsDigitChar(line[h + 3])
       /\ MeridiemMatch(line, h + 4)

\* stripped == "Views" or stripped == "<middot>"
IsViewsOrMiddot(line) == line = ViewsWord \/ line = <<Middot>>

\* The author repeats of lines 105-110.
IsAuthorRepeat(line, author_name, author_handle) ==
    LET lower == Lower(line)
        author_name_norm == Lower(Strip(author_name))
        author_handle_norm == Lower(Strip(author_handle))
    IN \/ lower = author_name_norm
       \/ lower = author_handle_norm
       \/ lower = Strip(author_name_norm \o <<" ">> \o author_handle_norm)

\* _METRIC_LINE_RE.fullmatch(stripped): ^[\d,.]+(?:[KMBT]|[KMBT]\+)?$
MetricLineMatch(line) ==
    LET d == MetricRunEnd(line, 1)
        rest == Slice(line, d, Len(line))
    IN /\ d > 1
       /\ \/ rest = <<>>
          \/ Len(rest) = 1 /\ IsMagnitudeChar(rest[1])
          \/ Len(rest) = 2 /\ IsMagnitudeChar(rest[1]) /\ rest[2] = "+"

\* [line.rstrip() for line in sanitized_source.splitlines()]
RStripLines(ls) == [i \in 1..Len(ls) |-> RStrip(ls[i])]

RECURSIVE CleanLines(_, _, _, _)

OnStopLine_Skip(ls, cleaned, author_name, author_handle) ==
    CleanLines(Tail(ls), cleaned, author_name, author_handle)

\* The `break` of line 100: the scan ends.
OnStopLine(ls, cleaned, author_name, author_handle) == cleaned

OnDroppedLine_Blank(cleaned) == Append(cleaned, <<>>)

\* The `continue` of lines 111 and 114: nothing is appended.
OnDroppedLine(cleaned) == cleaned

\* The loop `for line in lines` of lines 93-116, giving `cleaned`.
CleanLines(ls, cleaned, author_name, author_handle) ==
    IF ls = <<>> THEN cleaned
    ELSE LET stripped == Strip(Head(ls))
         IN IF stripped = <<>>
            THEN CleanLines(Tail(ls), Append(cleaned, <<>>), author_name, author_handle)
            ELSE IF StopAtLineMatch(stripped) \/ TimestampLineMatch(stripped)
            THEN OnStopLine(ls, cleaned, author_name, author_handle)
            ELSE IF IsViewsOrMiddot(stripped)
            THEN cleaned  \* the `break` of line 103
            ELSE IF \/ IsAuthorRepeat(stripped, author_name, author_handle)
                    \/ MetricLineMatch(stripped)
            THEN CleanLines(Tail(ls), OnDroppedLine(cleaned), author_name, author_handle)
            ELSE CleanLines(Tail(ls), Append(cleaned, stripped), author_name,
                            author_handle)

RECURSIVE CollapseBlank(_, _)
\* The loop of lines 119-126: repeated blank lines collapse to one.
CollapseBlank(cleaned, previous_blank) ==
    IF cleaned = <<>> THEN <<>>
    ELSE LET is_blank == Head(cleaned) = <<>>
         IN IF is_blank /\ previous_blank
            THEN CollapseBlank(Tail(cleaned), previous_blank)
            ELSE <<Head(cleaned)>> \o CollapseBlank(Tail(cleaned), is_blank)

\* Lines 77-85: the text the line scan reads.
SanitizedSource(raw, author_name, author_handle) ==
    StripAuthorPrefix(BlankArtifacts(raw, 1), author_name, author_handle)

\* Line 87: `lines`.
ScanLines(raw, author_name, author_handle) ==
    RStripLines(SplitLines(SanitizedSource(raw, author_name, author_handle)))

\* Lines 93-128 on `lines`.
SanitizeLines(ls, author_name, author_handle) ==
    Strip(JoinWith(CollapseBlank(CleanLines(ls, <<>>, author_name, author_handle),
                                 FALSE),
                   <<"\n">>))

\* _sanitize_text(raw_text, author_name, author_handle)
SanitizeText(raw, author_name, author_handle) ==
    SanitizeLines(ScanLines(raw, author_name, author_handle), author_name,
                  author_handle)

(***************************************************************************)
(* _sanitize_text over raw texts of up to MaxRawLines lines.               *)
(***************************************************************************)
MaxRawLines == 3

AuthorChoices ==
    {[name |-> <<"A", "l", "i", "c", "e">>, handle |-> <<"@", "a", "l", "i", "c", "e">>],
     [name |-> <<"U", "n", "k", "n", "o", "w", "n">>,
      handle |-> <<"@", "u", "n", "k", "n", "o", "w", "n">>]}

\* A content line, a content line with trailing white space, a blank line, a
\* stop phrase, a timestamp line, a "Views" line, a metric token and a repeat
\* of the handle.
RawLineChoices ==
    {<<"a">>, <<"b", " ">>, <<>>,
     UpgradePhrase,
     <<"3", ":", "4", "5", " ", "P", "M", " ", Middot, " ", "x">>,
     ViewsWord,
     <<"1", ".", "2", "K">>,
     <<"@", "A", "L", "I", "C", "E">>}

\* Texts with a bare middot, with the author prefix of the page header, with
\* injected artifacts (one of them spanning a stop phrase), with a stop phrase
\* before a "Views" line, and with a metric token between blank lines.
ArtifactTexts ==
    {<<<<"a">>, <<Middot>>, <<"b", " ">>>>,
     <<<<"A", "l", "i", "c", "e", " ", "@", "a", "l", "i", "c", "e", " ", "9", " ", "c">>,
       <<"1", ".", "2", "K">>, <<"b", " ">>>>,
     <<<<"a">> \o TriggerWord, PostCommentWord \o <<"(">>, UpgradePhrase,
       <<")">>, <<"b", " ">>>>,
     <<<<"a">>, ReadWord \o <<" ", "2", " ">> \o RepliesWord, <<"b", " ">>,
       ViewsWord, <<"a">>>>,
     <<<<"a">>, <<>>, <<"1", ".", "2", "K">>, <<>>, <<"b", " ">>>>}

InitSanitize ==
    /\ pc = "sanitize"
    /\ InitBuildIdle
    /\ InitInputIdle
    /\ InitBlocksIdle
    /\ InitExtractIdle
    /\ InitCodeIdle
    /\ InitInlineIdle
    /\ InitRenderIdle
    /\ InitLayoutIdle
    /\ raw_parts \in SeqsUpTo(RawLineChoices, MaxRawLines) \cup ArtifactTexts
    /\ author \in AuthorChoices
    /\ raw_text = JoinWith(raw_parts, <<"\n">>)
    /\ sanitized = <<>>

\* _sanitize_text(raw_text, author_name, author_handle) returns.
Sanitize ==
    /\ pc = "sanitize"
    /\ sanitized' = <<SanitizeText(raw_text, author.name, author.handle)>>
    /\ pc' = "sanitized"
    /\ UNCHANGED <<idleBuildVars, inputVars, blockVars, raw_parts, author, raw_text,
                   inlineVars, renderVars, layoutVars, extractVars, codeVars>>

NextSanitize == Sanitize

SpecSanitize == InitSanitize /\ [][NextSanitize]_vars

(***************************************************************************)
(* Claims about the sanitizer.                                             *)
(***************************************************************************)
\* `lines` of the call under test.
ScannedLines == ScanLines(raw_text, author.name, author.handle)

IsTruncationLine(line) ==
    StopAtLineMatch(Strip(line)) \/ TimestampLineMatch(Strip(line))

TruncationLines(ls) == {i \in 1..Len(ls) : IsTruncationLine(ls[i])}

\* The first line matching a stop phrase or the timestamp pattern, one past
\* the last line when there is none.
FirstTruncation(ls) ==
    LET cut == TruncationLines(ls)
    IN IF cut = {} THEN Len(ls) + 1
       ELSE CHOOSE i \in cut : \A j \in cut : i <= j

\* The lines of the returned text.
OutputLines == IF sanitized[1] = <<>> THEN <<>> ELSE SplitOn(sanitized[1], "\n")

RECURSIVE IsSubsequence(_, _)
\* a is b with some elements left out
IsSubsequence(a, b) ==
    IF a = <<>> THEN TRUE
    ELSE IF b = <<>> THEN FALSE
    ELSE IF Head(a) = Head(b) THEN IsSubsequence(Tail(a), Tail(b))
    ELSE IsSubsequence(a, Tail(b))

\* C11: at the first line matching a stop phrase or the timestamp pattern
\* the scan is cut: the returned text is the one the lines before it give on
\* their own, whatever the lines from it onward are, and its lines are lines
\* standing before the cut, in their order.
C11_TruncateAtStopLine ==
    pc = "sanitized" =>
       LET lines == ScannedLines
           first == FirstTruncation(lines)
           before == SubSeq(lines, 1, first - 1)
       IN first <= Len(lines) =>
             /\ sanitized[1] = SanitizeLines(before, author.name, author.handle)
             /\ IsSubsequence(NonEmpty(OutputLines), StrippedNonBlank(before))

\* Content stands before and after a stop phrase; only the former is returned.
C11_Witness ==
    /\ pc = "sanitized"
    /\ raw_parts = <<<<"a">>, UpgradePhrase, <<"b", " ">>>>
    /\ FirstTruncation(ScannedLines) = 2
    /\ sanitized = <<<<"a">>>>

\* A line the scan neither stops at nor drops: not blank, no stop phrase or
\* timestamp, not "Views" or a middot, no author repeat, no metric token.
IsContentLine(line) ==
    LET stripped == Strip(line)
    IN /\ stripped # <<>>
       /\ ~IsTruncationLine(line)
       /\ ~IsViewsOrMiddot(stripped)
       /\ ~IsAuthorRepeat(stripped, author.name, author.handle)
       /\ ~MetricLineMatch(stripped)

\* C12: a line that is exactly "Views" or a bare middot is dropped on its
\* own: every content line standing after it and before the first stop-phrase
\* or timestamp line is a line of the returned text.
C12_ViewsLineDroppedAlone ==
    pc = "sanitized" =>
       LET lines == ScannedLines
           first == FirstTruncation(lines)
           output_lines == OutputLines
       IN \A i \in 1..(first - 1) : \A j \in (i + 1)..(first - 1) :
             (IsViewsOrMiddot(Strip(lines[i])) /\ IsContentLine(lines[j]))
                => Strip(lines[j]) \in Range(output_lines)

\* A line holding only a metric token or a repeat of the author.
IsDroppedLine(line) ==
    LET stripped == Strip(line)
    IN /\ stripped # <<>>
       /\ \/ IsAuthorRepeat(stripped, author.name, author.handle)
          \/ MetricLineMatch(stripped)

\* The first line at which the scan of the source ends, one past the last
\* line when it reads them all.
ScanEnd(ls) ==
    LET ends == {i \in 1..Len(ls) :
                    IsTruncationLine(ls[i]) \/ IsViewsOrMiddot(Strip(ls[i]))}
    IN IF ends = {} THEN Len(ls) + 1
       ELSE CHOOSE i \in ends : \A j \in ends : i <= j

RECURSIVE RetainedLines(_)
\* The lines of ls that are neither blank nor dropped, stripped, in order.
RetainedLines(ls) ==
    IF ls = <<>> THEN <<>>
    ELSE IF Strip(Head(ls)) = <<>> \/ IsDroppedLine(Head(ls))
         THEN RetainedLines(Tail(ls))
         ELSE <<Strip(Head(ls))>> \o RetainedLines(Tail(ls))

\* ls without its i-th element
RemoveAt(ls, i) == SubSeq(ls, 1, i - 1) \o SubSeq(ls, i + 1, Len(ls))

\* C13: a line holding only a metric token or a repeat of the author name,
\* handle or "name handle" is no line of the returned text; the returned text
\* is the one the same lines give without it; the other lines read by the
\* scan are all returned, in order; and the returned text has no two
\* consecutive blank lines.
C13_MetricAndAuthorLinesDropped ==
    pc = "sanitized" =>
       LET lines == ScannedLines
           output_lines == OutputLines
       IN /\ \A i \in 1..Len(output_lines) : ~IsDroppedLine(output_lines[i])
          /\ \A i \in 1..Len(lines) :
                IsDroppedLine(lines[i]) =>
                   sanitized[1] = SanitizeLines(RemoveAt(lines, i), author.name,
                                                author.handle)
          /\ NonEmpty(output_lines)
                = RetainedLines(SubSeq(lines, 1, ScanEnd(lines) - 1))
          /\ \A i \in 1..(Len(output_lines) - 1) :
                ~(output_lines[i] = <<>> /\ output_lines[i + 1] = <<>>)

\* A metric token between blank lines, between two content lines: the token
\* goes and one blank line stays.
C13_Witness ==
    /\ pc = "sanitized"
    /\ raw_parts = <<<<"a">>, <<>>, <<"1", ".", "2", "K">>, <<>>, <<"b", " ">>>>
    /\ sanitized = <<<<"a", "\n", "\n", "b">>>>

(***************************************************************************)
(* latex_escape and the inline markup renderer (renderer.py).              *)
(***************************************************************************)
Backslash == "\\"

\* _LATEX_ESCAPE_MAP, in the order of the dictionary
LatexEscapeKeys == <<Backslash, "&", "%", "$", "#", "_", "{", "}", "~", "^">>

LatexEscapeValues ==
    <<<<"\\", "t", "e", "x", "t", "b", "a", "c", "k", "s", "l", "a", "s",
        "h", "{", "}">>,
      <<"\\", "&">>, <<"\\", "%">>, <<"\\", "$">>,
      <<"\\", "#">>, <<"\\", "_">>, <<"\\", "{">>, <<"\\", "}">>,
      <<"\\", "t", "e", "x", "t", "a", "s", "c", "i", "i", "t", "i", "l",
        "d", "e", "{", "}">>,
      <<"\\", "t", "e", "x", "t", "a", "s", "c", "i", "i", "c", "i", "r",
        "c", "u", "m", "{", "}">>>>

\* _LATEX_ESCAPE_MAP.get(char, char)
LatexEscapeChar(char) ==
    IF char \in Range(LatexEscapeKeys)
    THEN LatexEscapeValues[CHOOSE k \in 1..Len(LatexEscapeKeys) :
                              LatexEscapeKeys[k] = char]
    ELSE <<char>>

RECURSIVE ReplaceKey(_, _)
\* v.replace(key, escape) for the k-th key of the map
ReplaceKey(v, k) ==
    IF v = <<>> THEN <<>>
    ELSE (IF Head(v) = LatexEscapeKeys[k] THEN LatexEscapeValues[k] ELSE <<Head(v)>>)
         \o ReplaceKey(Tail(v), k)

RECURSIVE ReplaceKeysFrom(_, _)
ReplaceKeysFrom(v, k) ==
    IF k > Len(LatexEscapeKeys) THEN v
    ELSE ReplaceKeysFrom(ReplaceKey(v, k), k + 1)

LatexEscape_KeyByKey(v) == ReplaceKeysFrom(v, 1)

\* latex_escape(value): "".join(_LATEX_ESCAPE_MAP.get(char, char) for char in value)
LatexEscape(v) == Flatten([i \in 1..Len(v) |-> LatexEscapeChar(v[i])])

\* The position after the run of characters other than c that starts at p.
RunEndBefore(s, p, c) ==
    IF \E i \in p..Len(s) : s[i] = c
    THEN CHOOSE i \in p..Len(s) : s[i] = c /\ \A j \in p..(i - 1) : s[j] # c
    ELSE Len(s) + 1

\* re: the literal stands at position p of s.
ExactAt(s, p, literal) ==
    /\ p >= 1
    /\ p + Len(literal) - 1 <= Len(s)
    /\ SubSeq(s, p, p + Len(literal) - 1) = literal

NoInlineMatch == [last |-> 0, form |-> "none", inner |-> <<>>, href |-> <<>>]

HttpPrefix == <<"h", "t", "t", "p", ":", "/", "/">>

HttpsPrefix == <<"h", "t", "t", "p", "s", ":", "/", "/">>

\* \[([^\]]+)\]\((https?://[^)\s]+)\) at position p
LinkMatchAt(s, p) ==
    LET a == RunEndBefore(s, p + 1, "]")
        u == a + 2
        h == IF ExactAt(s, u, HttpsPrefix) THEN u + Len(HttpsPrefix)
             ELSE IF ExactAt(s, u, HttpPrefix) THEN u + Len(HttpPrefix)
             ELSE 0
        e == IF \E i \in h..Len(s) : s[i] = ")" \/ IsSpaceChar(s[i])
             THEN CHOOSE i \in h..Len(s) :
                     /\ s[i] = ")" \/ IsSpaceChar(s[i])
                     /\ \A j \in h..(i - 1) : ~(s[j] = ")" \/ IsSpaceChar(s[j]))
             ELSE Len(s) + 1
    IN IF /\ ExactAt(s, p, <<"[">>)
          /\ a > p + 1
          /\ ExactAt(s, a, <<"]", "(">>)
          /\ h > 0
          /\ e > h
          /\ e <= Len(s)
          /\ s[e] = ")"
       THEN [last |-> e, form |-> "link", inner |-> SubSeq(s, p + 1, a - 1),
             href |-> SubSeq(s, u, e - 1)]
       ELSE NoInlineMatch

\* open([^c]+)close at position p, for the bold, code and italic forms
DelimitedMatchAt(s, p, open, c, close, form) ==
    LET a == p + Len(open)
        b == RunEndBefore(s, a, c)
    IN IF ExactAt(s, p, open) /\ b > a /\ ExactAt(s, b, close)
       THEN [last |-> b + Len(close) - 1, form |-> form,
             inner |-> SubSeq(s, a, b - 1), href |-> <<>>]
       ELSE NoInlineMatch

BoldMatchAt(s, p) == DelimitedMatchAt(s, p, <<"*", "*">>, "*", <<"*", "*">>, "bold")

CodeMatchAt(s, p) == DelimitedMatchAt(s, p, <<Backtick>>, Backtick, <<Backtick>>, "code")

ItalicMatchAt(s, p) == DelimitedMatchAt(s, p, <<"*">>, "*", <<"*">>, "italic")

\* _INLINE_MARKUP_RE at position p: the alternatives in their order
InlineMatchAt(s, p) ==
    IF LinkMatchAt(s, p).last > 0 THEN LinkMatchAt(s, p)
    ELSE IF BoldMatchAt(s, p).last > 0 THEN BoldMatchAt(s, p)
    ELSE IF CodeMatchAt(s, p).last > 0 THEN CodeMatchAt(s, p)
    ELSE ItalicMatchAt(s, p)

\* The start of the next match of finditer at or after position from, 0 when
\* there is none.
NextInlineStart(s, from) ==
    IF \E p \in from..Len(s) : InlineMatchAt(s, p).last > 0
    THEN CHOOSE p \in from..Len(s) :
            /\ InlineMatchAt(s, p).last > 0
            /\ \A q \in from..(p - 1) : InlineMatchAt(s, q).last = 0
    ELSE 0

HrefCommand == <<"\\", "h", "r", "e", "f">>

TextbfCommand == <<"\\", "t", "e", "x", "t", "b", "f">>

TextttCommand == <<"\\", "t", "e", "x", "t", "t", "t">>

EmphCommand == <<"\\", "e", "m", "p", "h">>

Braced(s) == <<"{">> \o s \o <<"}">>

RenderSpan_EscapeAll(match) ==
    LatexEscape(CASE match.form = "link" ->
                       HrefCommand \o Braced(match.href) \o Braced(match.inner)
                  [] match.form = "bold" -> TextbfCommand \o Braced(match.inner)
                  [] match.form = "code" -> TextttCommand \o Braced(match.inner)
                  [] OTHER -> EmphCommand \o Braced(match.inner))

\* Lines 72-79: the command appended for one match.
RenderSpan(match) ==
    CASE match.form = "link" ->
           HrefCommand \o Braced(match.href) \o Braced(LatexEscape(match.inner))
      [] match.form = "bold" -> TextbfCommand \o Braced(LatexEscape(match.inner))
      [] match.form = "code" -> TextttCommand \o Braced(LatexEscape(match.inner))
      [] OTHER -> EmphCommand \o Braced(LatexEscape(match.inner))

RECURSIVE RenderInlineFrom(_, _)
\* The loop of lines 63-81 and the tail of line 83; cursor is 1-based.
RenderInlineFrom(v, cursor) ==
    LET start == NextInlineStart(v, cursor)
    IN IF start = 0 THEN LatexEscape(Slice(v, cursor, Len(v)))
       ELSE LET match == InlineMatchAt(v, start)
            IN LatexEscape(Slice(v, cursor, start - 1)) \o RenderSpan(match)
               \o RenderInlineFrom(v, match.last + 1)

\* _render_inline_markup(value)
RenderInlineMarkup(v) == RenderInlineFrom(v, 1)

(***************************************************************************)
(* _render_inline_markup and latex_escape over block bodies written from   *)
(* up to MaxMarkupParts runs and spans.                                    *)
(***************************************************************************)
MaxMarkupParts == 3

PlainPart(s) == [form |-> "plain", inner |-> s, href |-> <<>>]

SpanPart(form, s) == [form |-> form, inner |-> s, href |-> <<>>]

LinkPart(s, target) == [form |-> "link", inner |-> s, href |-> target]

\* Plain runs (a letter, special characters, a lone marker of each kind) and
\* one span of each form; together they hold the ten special characters.
MarkupChoices ==
    {PlainPart(<<"a">>), PlainPart(<<"%">>), PlainPart(<<Backslash>>),
     PlainPart(<<"{">>), PlainPart(<<"*">>), PlainPart(<<"[">>),
     SpanPart("bold", <<"b", "_", "}">>),
     SpanPart("code", <<"#">>),
     SpanPart("italic", <<"&", "~">>),
     LinkPart(<<"$", "^">>, <<"h", "t", "t", "p", ":", "/", "/", "e", "/", "_">>)}

\* "Read **this** and [source](https://example.com)."
ExampleMarkup ==
    <<PlainPart(<<"R", "e", "a", "d", " ">>),
      SpanPart("bold", <<"t", "h", "i", "s">>),
      PlainPart(<<" ", "a", "n", "d", " ">>),
      LinkPart(<<"s", "o", "u", "r", "c", "e">>,
               <<"h", "t", "t", "p", "s", ":", "/", "/", "e", "x", "a", "m",
                 "p", "l", "e", ".", "c", "o", "m">>),
      PlainPart(<<".">>)>>

\* The source text of one part.
MarkupSource(part) ==
    CASE part.form = "plain" -> part.inner
      [] part.form = "bold" -> <<"*", "*">> \o part.inner \o <<"*", "*">>
      [] part.form = "code" -> <<Backtick>> \o part.inner \o <<Backtick>>
      [] part.form = "italic" -> <<"*">> \o part.inner \o <<"*">>
      [] OTHER -> <<"[">> \o part.inner \o <<"]", "(">> \o part.href \o <<")">>

ComposeMarkup(parts) == Flatten([i \in 1..Len(parts) |-> MarkupSource(parts[i])])

InitInline ==
    /\ pc = "markup"
    /\ InitBuildIdle
    /\ InitInputIdle
    /\ InitBlocksIdle
    /\ InitExtractIdle
    /\ InitCodeIdle
    /\ InitSanitizeIdle
    /\ InitRenderIdle
    /\ InitLayoutIdle
    /\ markup_parts \in SeqsUpTo(MarkupChoices, MaxMarkupParts) \cup {ExampleMarkup}
    /\ value = ComposeMarkup(markup_parts)
    /\ rendered = <<>>
    /\ escaped = <<>>

\* _render_inline_markup(value) returns.
RenderInline ==
    /\ pc = "markup"
    /\ rendered = <<>>
    /\ rendered' = <<RenderInlineMarkup(value)>>
    /\ UNCHANGED <<pc, idleBuildVars, inputVars, blockVars, sanitizeVars,
                   markup_parts, value, escaped, renderVars, layoutVars,
                   extractVars, codeVars>>

\* latex_escape(value) returns.
Escape ==
    /\ pc = "markup"
    /\ escaped = <<>>
    /\ escaped' = <<LatexEscape(value)>>
    /\ UNCHANGED <<pc, idleBuildVars, inputVars, blockVars, sanitizeVars,
                   markup_parts, value, rendered, renderVars, layoutVars,
                   extractVars, codeVars>>

NextInline == RenderInline \/ Escape

SpecInline == InitInline /\ [][NextInline]_vars

(***************************************************************************)
(* Claims about the inline renderer and latex_escape.                      *)
(***************************************************************************)
\* The inline forms in the order in which they are tried.
FormOrder == <<"link", "bold", "code", "italic">>

FormMatchAt(form, s, p) ==
    CASE form = "link" -> LinkMatchAt(s, p)
      [] form = "bold" -> BoldMatchAt(s, p)
      [] form = "code" -> CodeMatchAt(s, p)
      [] OTHER -> ItalicMatchAt(s, p)

\* The forms that match at position p, as indexes of FormOrder.
FormsAt(s, p) == {k \in 1..Len(FormOrder) : FormMatchAt(FormOrder[k], s, p).last > 0}

\* One character escaped once.
EscapedOnce(s) == Flatten([i \in 1..Len(s) |-> LatexEscapeChar(s[i])])

\* The styled command of a span: the inner text escaped once, the target of
\* a link as written.
StyledSpan(match) ==
    CASE match.form = "link" ->
           HrefCommand \o <<"{">> \o match.href \o <<"}", "{">>
              \o EscapedOnce(match.inner) \o <<"}">>
      [] match.form = "bold" ->
           TextbfCommand \o <<"{">> \o EscapedOnce(match.inner) \o <<"}">>
      [] match.form = "code" ->
           TextttCommand \o <<"{">> \o EscapedOnce(match.inner) \o <<"}">>
      [] OTHER -> EmphCommand \o <<"{">> \o EscapedOnce(match.inner) \o <<"}">>

RECURSIVE ScanInline(_, _)
\* The left-to-right scan: at position p the first form of FormOrder that
\* matches gives a span and the scan goes on after it; when none matches the
\* character at p is escaped and the scan goes on at p + 1.
ScanInline(s, p) ==
    IF p > Len(s) THEN <<>>
    ELSE LET forms == FormsAt(s, p)
         IN IF forms = {}
            THEN LatexEscapeChar(s[p]) \o ScanInline(s, p + 1)
            ELSE LET first == CHOOSE k \in forms : \A j \in forms : k <= j
                     match == FormMatchAt(FormOrder[first], s, p)
                 IN StyledSpan(match) \o ScanInline(s, match.last + 1)

\* C14: the rendered body is the left-to-right scan over non-overlapping
\* spans, the first matching form of link, bold, code, italic winning at each
\* position; each span is its styled command around its inner text escaped
\* once, and every character outside the spans is escaped once from the raw
\* input.
C14_InlineScan ==
    rendered # <<>> => rendered[1] = ScanInline(value, 1)

\* "Read **this** and [source](https://example.com)." gives a bold span for
\* "this" and a link to https://example.com labelled "source".
C14_Witness ==
    /\ markup_parts = ExampleMarkup
    /\ rendered = <<
        <<"R", "e", "a", "d", " ", "\\", "t", "e", "x", "t", "b", "f", "{",
          "t", "h", "i", "s", "}", " ", "a", "n", "d", " ", "\\", "h", "r",
          "e", "f", "{", "h", "t", "t", "p", "s", ":", "/", "/", "e", "x",
          "a", "m", "p", "l", "e", ".", "c", "o", "m", "}", "{", "s", "o",
          "u", "r", "c", "e", "}", ".">>>>

\* A bold span whose inner text holds special characters, after a lone
\* marker and before a link.
C14_SpanWitness ==
    /\ markup_parts = <<PlainPart(<<"*">>), SpanPart("bold", <<"b", "_", "}">>),
                        LinkPart(<<"$", "^">>,
                                 <<"h", "t", "t", "p", ":", "/", "/", "e", "/", "_">>)>>
    /\ rendered = <<
        <<"*", "\\", "t", "e", "x", "t", "b", "f", "{", "b", "\\", "_", "\\",
          "}", "}", "\\", "h", "r", "e", "f", "{", "h", "t", "t", "p", ":",
          "/", "/", "e", "/", "_", "}", "{", "\\", "$", "\\", "t", "e", "x",
          "t", "a", "s", "c", "i", "i", "c", "i", "r", "c", "u", "m", "{",
          "}", "}">>>>

\* The characters the claim names as never left unescaped.
GuardedChars == {"%", "#", "_", "$", "&"}

\* The position in the output of the escape of the i-th input character.
EscapeStart(v, i) == 1 + SumLen([j \in 1..(i - 1) |-> LatexEscapeChar(v[j])])

RECURSIVE Unescape(_)
\* Reads an escaped text back: an escape of the map gives its character, any
\* other character gives itself.
Unescape(out) ==
    IF out = <<>> THEN <<>>
    ELSE LET keys == {k \in 1..Len(LatexEscapeKeys) :
                         ExactAt(out, 1, LatexEscapeValues[k])}
         IN IF keys = {} THEN <<Head(out)>> \o Unescape(Tail(out))
            ELSE LET k == CHOOSE k \in keys : TRUE
                 IN <<LatexEscapeKeys[k]>>
                    \o Unescape(Slice(out, Len(LatexEscapeValues[k]) + 1, Len(out)))

\* C15: latex_escape replaces each of the ten special characters by its
\* mapped escape and leaves every other character as it is and in place: the
\* output is the escapes of the input characters one after the other, it
\* reads back to the input, and each %, #, _, $ or & of the output directly
\* follows a backslash of the escape of that very character.
C15_EscapeSinglePass ==
    escaped # <<>> =>
       LET out == escaped[1]
       IN /\ Len(out) = SumLen([i \in 1..Len(value) |-> LatexEscapeChar(value[i])])
          /\ \A i \in 1..Len(value) :
                LET a == EscapeStart(value, i)
                    e == IF value[i] \in Range(LatexEscapeKeys)
                         THEN LatexEscapeValues[CHOOSE k \in 1..Len(LatexEscapeKeys) :
                                                   LatexEscapeKeys[k] = value[i]]
                         ELSE <<value[i]>>
                IN ExactAt(out, a, e)
          /\ Unescape(out) = value
          /\ \A j \in 1..Len(out) :
                out[j] \in GuardedChars =>
                   /\ j > 1
                   /\ out[j - 1] = Backslash
                   /\ \E i \in 1..Len(value) :
                         value[i] = out[j] /\ EscapeStart(value, i) = j - 1

\* A text with a backslash, a brace and a percent sign.
C15_Witness ==
    /\ value = <<Backslash, "{", "%">>
    /\ escaped = <<<<Backslash, "t", "e", "x", "t", "b", "a", "c", "k", "s", "l", "a",
                     "s", "h", "{", "}", Backslash, "{", Backslash, "%">>>>

(***************************************************************************)
(* The document assembler (renderer.py, render_issue_tex).  A rendered     *)
(* text is a sequence of pieces: a piece stands for one line of fixed      *)
(* markup, one rendered content block, one rendered image or one newline.  *)
(***************************************************************************)
Piece(kind, status_id, n) == [kind |-> kind, status_id |-> status_id, n |-> n]

\* "\n"
Newline == Piece("newline", <<>>, 0)

\* r"\newpage"
NewpageMarker == <<Piece("newpage", <<>>, 0)>>

\* The i-th string of _render_content_blocks(article.text).
ContentBlock(article, i) == <<Piece("block", article.status_id, i)>>

\* _render_content_blocks(article.text)
RenderContentBlocks(article) == [i \in 1..article.blocks |-> ContentBlock(article, i)]

\* _render_article_header(article, article_index, total_articles)
RenderArticleHeader(article, article_index, total_articles) ==
    <<Piece("header", article.status_id, article_index)>>

\* _render_single_inline_image(image)
RenderSingleInlineImage(image) == <<Piece("inline_image", image.status_id, image.n)>>

\* _render_single_span_image(image)
RenderSingleSpanImage(image) == <<Piece("span_image", image.status_id, image.n)>>

ShouldInsertImage_EvenOnly(block_index) == block_index % 2 = 0

\* should_insert_image of line 338
ShouldInsertImage(block_index) == block_index = 1 \/ block_index % 2 = 0

RECURSIVE InlineFlowParts(_, _, _, _)
\* `parts` of _render_inline_flow, from block block_index on, image_index
\* images being placed (lines 335-345)
InlineFlowParts(content_blocks, images, block_index, image_index) ==
    IF block_index <= Len(content_blocks)
    THEN IF ShouldInsertImage(block_index) /\ image_index < Len(images)
         THEN <<content_blocks[block_index],
                RenderSingleInlineImage(images[image_index + 1])>>
              \o InlineFlowParts(content_blocks, images, block_index + 1,
                                 image_index + 1)
         ELSE <<content_blocks[block_index]>>
              \o InlineFlowParts(content_blocks, images, block_index + 1, image_index)
    ELSE IF image_index < Len(images)
    THEN <<RenderSingleInlineImage(images[image_index + 1])>>
         \o InlineFlowParts(content_blocks, images, block_index, image_index + 1)
    ELSE <<>>

\* _render_inline_flow(content_blocks, images)
RenderInlineFlow(content_blocks, images) ==
    JoinWith(InlineFlowParts(content_blocks, images, 1, 0), <<Newline, Newline>>)

\* rf"\begin{{multicols*}}{{{config.columns}}}"
BeginMulticols(config) == <<Piece("begin_multicols", <<>>, config.columns)>>

Raggedright == <<Piece("raggedright", <<>>, 0)>>

EndMulticols == <<Piece("end_multicols", <<>>, 0)>>

\* _article_block(article, images, config, article_index=..., total_articles=...):
\* [body, appendix]
ArticleBlock(article, images, config, article_index, total_articles) ==
    LET header == RenderArticleHeader(article, article_index, total_articles)
        content_blocks == RenderContentBlocks(article)
    IN IF config.image_layout = "inline"
       THEN [body |-> JoinWith(<<BeginMulticols(config), Raggedright, header,
                                 RenderInlineFlow(content_blocks, images),
                                 EndMulticols>>, <<Newline>>),
             appendix |-> <<>>]
       ELSE IF config.image_layout = "span"
       THEN [body |-> JoinWith(<<BeginMulticols(config), Raggedright, header,
                                 JoinWith(content_blocks, <<Newline, Newline>>),
                                 EndMulticols,
                                 JoinWith([i \in 1..Len(images) |->
                                              RenderSingleSpanImage(images[i])],
                                          <<Newline>>)>>, <<Newline>>),
             appendix |-> <<>>]
       ELSE [body |-> JoinWith(<<BeginMulticols(config), Raggedright, header,
                                 JoinWith(content_blocks, <<Newline, Newline>>),
                                 EndMulticols>>, <<Newline>>),
             appendix |-> images]

\* media_map.get(status_id, [])
MediaMapGet(media_by_id, status_id) ==
    IF \E i \in 1..Len(media_by_id) : media_by_id[i].status_id = status_id
    THEN media_by_id[CHOOSE i \in 1..Len(media_by_id) :
                      media_by_id[i].status_id = status_id].images
    ELSE <<>>

BreakAfter_Every(config, index, total) == config.pagination = "newpage"

\* Line 419: a page break follows the article.
BreakAfter(config, index, total) == config.pagination = "newpage" /\ index < total

ExtendAppendix_Front(appendix_images, appendix) == appendix \o appendix_images

\* Line 417: appendix_images.extend(appendix)
ExtendAppendix(appendix_images, appendix) == appendix_images \o appendix

RECURSIVE IssueLoop(_, _, _, _, _, _)
\* The loop of lines 408-420 from article `index` on: [blocks, appendix_images]
IssueLoop(content_list, media_by_id, config, index, blocks_so_far, appendix_images) ==
    IF index > Len(content_list)
    THEN [blocks |-> blocks_so_far, appendix_images |-> appendix_images]
    ELSE LET article == content_list[index]
             result == ArticleBlock(article, MediaMapGet(media_by_id, article.status_id),
                                    config, index, Len(content_list))
             with_body == Append(blocks_so_far, result.body)
         IN IssueLoop(content_list, media_by_id, config, index + 1,
                      IF BreakAfter(config, index, Len(content_list))
                      THEN Append(with_body, NewpageMarker) ELSE with_body,
                      ExtendAppendix(appendix_images, result.appendix))

\* render_issue_tex(contents, media_map, config): the arguments with which
\* the template is rendered (lines 426-436)
RenderIssueTex(content_list, media_by_id, config) ==
    LET loop == IssueLoop(content_list, media_by_id, config, 1, <<>>, <<>>)
    IN [paper_option |-> IF config.paper = "a4" THEN "a4paper" ELSE "letterpaper",
        inner_margin_mm |-> config.inner_margin_mm,
        outer_margin_mm |-> config.outer_margin_mm,
        top_margin_mm |-> config.top_margin_mm,
        bottom_margin_mm |-> config.bottom_margin_mm,
        column_gap_mm |-> config.column_gap_mm,
        body_blocks |-> loop.blocks,
        appendix_images |-> loop.appendix_images,
        include_appendix |-> config.image_layout = "appendix"]

(***************************************************************************)
(* render_issue_tex over issues of up to MaxArticles articles.             *)
(***************************************************************************)
MaxArticles == 2

MaxIssueBlocks == 4

MaxIssueImages == 3

\* LocalMedia: the n-th downloaded image of an article.
LocalImage(status_id, n) == [status_id |-> status_id, n |-> n]

\* The i-th article of an issue, rendering to the given number of blocks.
IssueArticle(i, blocks_count) == [status_id |-> Digits(111 * i), blocks |-> blocks_count]

\* media_map[status_id] for the i-th article, with the given number of images.
IssueMedia(i, images_count) ==
    [status_id |-> Digits(111 * i),
     images |-> [n \in 1..images_count |-> LocalImage(Digits(111 * i), n)]]

ImageLayouts == {"span", "inline", "appendix"}

\* A valid LayoutConfig with the margins of the defaults.
IssueConfig(pagination_mode, image_layout_mode) ==
    [paper |-> "a4", columns |-> 3, outer_margin_mm |-> 4, inner_margin_mm |-> 9,
     top_margin_mm |-> 10, bottom_margin_mm |-> 10, column_gap_mm |-> 4,
     pagination |-> pagination_mode, image_layout |-> image_layout_mode]

InitRender ==
    /\ pc = "render"
    /\ InitBuildIdle
    /\ InitInputIdle
    /\ InitBlocksIdle
    /\ InitExtractIdle
    /\ InitCodeIdle
    /\ InitSanitizeIdle
    /\ InitInlineIdle
    /\ InitLayoutIdle
    /\ \E k \in 0..MaxArticles :
          \E block_counts \in [1..k -> 0..MaxIssueBlocks] :
             \E image_counts \in [1..k -> 0..MaxIssueImages] :
                /\ issue_contents = [i \in 1..k |-> IssueArticle(i, block_counts[i])]
                /\ issue_media = [i \in 1..k |-> IssueMedia(i, image_counts[i])]
    /\ issue_config \in {IssueConfig(p, l) : p \in Paginations, l \in ImageLayouts}
    /\ issue = <<>>

\* render_issue_tex(contents, media_map, config) reaches template.render.
RenderIssue ==
    /\ pc = "render"
    /\ issue' = <<RenderIssueTex(issue_contents, issue_media, issue_config)>>
    /\ pc' = "rendered"
    /\ UNCHANGED <<idleBuildVars, inputVars, blockVars, sanitizeVars, inlineVars,
                   issue_contents, issue_media, issue_config, layoutVars,
                   extractVars, codeVars>>

NextRender == RenderIssue

SpecRender == InitRender /\ [][NextRender]_vars

(***************************************************************************)
(* Claims about the assembler.                                             *)
(***************************************************************************)
IsImagePiece(piece) == piece.kind \in {"inline_image", "span_image"}

IsPlacedPiece(piece) == piece.kind = "block" \/ IsImagePiece(piece)

IsBlockPiece(piece) == piece.kind = "block"

\* The bodies of the articles among body_blocks, in order.
ArticleBodies(body_blocks) == SelectSeq(body_blocks, LAMBDA b : b # NewpageMarker)

\* The content blocks and images of a body, in the order of the text.
Placed(body) == SelectSeq(body, IsPlacedPiece)

\* The blocks after which an image goes when there are n blocks: 1, 2, 4, 6, ...
SlotBlocks(n) ==
    [k \in 1..(IF n = 0 THEN 0 ELSE 1 + (n \div 2)) |-> IF k = 1 THEN 1 ELSE 2 * (k - 1)]

\* The position of the piece in the sequence (it occurs once).
PositionOf(seq, piece) == CHOOSE i \in 1..Len(seq) : seq[i] = piece

\* The placement the inline layout promises for one article.
InlinePlacement(article, images, body) ==
    LET placed == Placed(body)
        n == article.blocks
        m == Len(images)
        slots == SlotBlocks(n)
        block(i) == Piece("block", article.status_id, i)
        image(k) == Piece("inline_image", article.status_id, k)
    IN /\ SelectSeq(placed, IsBlockPiece) = [i \in 1..n |-> block(i)]
       /\ SelectSeq(placed, IsImagePiece) = [k \in 1..m |-> image(k)]
       /\ Len(placed) = n + m
       /\ n >= 1 => placed[1] = block(1)
       /\ \A k \in 1..m :
             IF k <= Len(slots)
             THEN placed[PositionOf(placed, image(k)) - 1] = block(slots[k])
             ELSE placed[n + k] = image(k)

\* C16: with image_layout=inline every image of an article is placed once
\* and in order: the first directly after block 1, the next ones directly
\* after blocks 2, 4, 6, ..., the remaining ones after the last block; no
\* image stands before block 1.
C16_InlinePlacement ==
    (pc = "rendered" /\ issue_config.image_layout = "inline") =>
       LET bodies == ArticleBodies(issue[1].body_blocks)
       IN /\ Len(bodies) = Len(issue_contents)
          /\ \A i \in 1..Len(issue_contents) :
                InlinePlacement(issue_contents[i], issue_media[i].images, bodies[i])

\* One image and three blocks: the image stands directly after block 1.
C16_Witness ==
    /\ pc = "rendered"
    /\ issue_config.image_layout = "inline"
    /\ Len(issue_contents) = 1
    /\ issue_contents[1].blocks = 3
    /\ Len(issue_media[1].images) = 1
    /\ Placed(issue[1].body_blocks[1])
          = <<Piece("block", Digits(111), 1), Piece("inline_image", Digits(111), 1),
              Piece("block", Digits(111), 2), Piece("block", Digits(111), 3)>>

\* Three images and four blocks: after blocks 1, 2 and 4.
C16_EvenBlocksWitness ==
    /\ pc = "rendered"
    /\ issue_config.image_layout = "inline"
    /\ Len(issue_contents) = 1
    /\ [i \in 1..Len(Placed(issue[1].body_blocks[1])) |->
           Placed(issue[1].body_blocks[1])[i].kind]
          = <<"block", "inline_image", "block", "inline_image", "block", "block",
              "inline_image">>

\* C17: with image_layout=appendix no article body holds an image, and the
\* images of all articles, in article order and within an article in media
\* order, each once, are the list handed to the template for its appendix.
C17_AppendixCollects ==
    (pc = "rendered" /\ issue_config.image_layout = "appendix") =>
       /\ \A b \in 1..Len(issue[1].body_blocks) :
             \A j \in 1..Len(issue[1].body_blocks[b]) :
                ~IsImagePiece(issue[1].body_blocks[b][j])
       /\ issue[1].appendix_images
             = Flatten([i \in 1..Len(issue_media) |-> issue_media[i].images])
       /\ issue[1].include_appendix

\* Two articles with images: the list holds those of the first article, then
\* those of the second.
C17_Witness ==
    /\ pc = "rendered"
    /\ issue_config.image_layout = "appendix"
    /\ Len(issue_contents) = 2
    /\ issue[1].appendix_images
          = <<LocalImage(Digits(111), 1), LocalImage(Digits(111), 2),
              LocalImage(Digits(222), 1)>>

\* C18: with pagination=newpage and N >= 1 articles the body blocks are the
\* N article bodies with one page-break marker directly after each body but
\* the last (N - 1 markers); with pagination=continuous there is no marker.
C18_NewpageBetweenArticles ==
    pc = "rendered" =>
       LET body_blocks == issue[1].body_blocks
           total == Len(issue_contents)
           markers == {i \in 1..Len(body_blocks) : body_blocks[i] = NewpageMarker}
           IsBodyOf(body, k) ==
               /\ Len(body) >= 5
               /\ body[5] = Piece("header", issue_contents[k].status_id, k)
       IN /\ (issue_config.pagination = "newpage" /\ total >= 1) =>
                /\ Cardinality(markers) = total - 1
                /\ Len(body_blocks) = 2 * total - 1
                /\ \A i \in 1..Len(body_blocks) :
                      IF i % 2 = 0 THEN i \in markers
                      ELSE IsBodyOf(body_blocks[i], (i + 1) \div 2)
          /\ issue_config.pagination = "continuous" =>
                /\ markers = {}
                /\ Len(body_blocks) = total

\* Two articles on separate pages: one marker, between the bodies.
C18_Witness ==
    /\ pc = "rendered"
    /\ issue_config.pagination = "newpage"
    /\ Len(issue_contents) = 2
    /\ Len(issue[1].body_blocks) = 3
    /\ issue[1].body_blocks[2] = NewpageMarker

(***************************************************************************)
(* LayoutConfig (config.py) and its construction by the CLI (cli.py).      *)
(* Lengths in millimetres are floats in the source and integers here: the  *)
(* source only compares them.                                              *)
(***************************************************************************)
\* The defaults of the fields of LayoutConfig (lines 30-38).
LayoutDefaults ==
    [paper |-> "a4", columns |-> 3, outer_margin_mm |-> 4, inner_margin_mm |-> 9,
     top_margin_mm |-> 10, bottom_margin_mm |-> 10, column_gap_mm |-> 4,
     pagination |-> "newpage", image_layout |-> "inline"]

LayoutFields == DOMAIN LayoutDefaults

\* The defaults of the options of cli.build (lines 25-33).
CliOptionDefaults ==
    [paper |-> "a4", columns |-> 3, outer_margin_mm |-> 4, inner_margin_mm |-> 9,
     top_margin_mm |-> 10, bottom_margin_mm |-> 10, column_gap_mm |-> 4,
     pagination |-> "continuous", image_layout |-> "span"]

\* The keyword arguments over the defaults.
WithDefaults(args) ==
    [f \in LayoutFields |-> IF f \in DOMAIN args THEN args[f] ELSE LayoutDefaults[f]]

\* Field(ge=1, le=6) of columns
ColumnsGe == 1

ColumnsLe == 6

\* The Field constraints of lines 31-36.
FieldsValid(config) ==
    /\ config.columns >= ColumnsGe
    /\ config.columns <= ColumnsLe
    /\ config.outer_margin_mm > 0
    /\ config.inner_margin_mm > 0
    /\ config.top_margin_mm > 0
    /\ config.bottom_margin_mm > 0
    /\ config.column_gap_mm > 0

MarginRelationshipValid_Strict(config) == config.inner_margin_mm > config.outer_margin_mm

\* validate_margin_relationship: it raises when inner < outer
MarginRelationshipValid(config) == ~(config.inner_margin_mm < config.outer_margin_mm)

\* LayoutConfig(**args): the model validator runs after the fields validate.
LayoutConfig(args) ==
    LET config == WithDefaults(args)
    IN IF FieldsValid(config) /\ MarginRelationshipValid(config)
       THEN [kind |-> "config", config |-> config]
       ELSE [kind |-> "ValidationError", config |-> NoConfig]

(***************************************************************************)
(* Constructions of LayoutConfig: directly with keyword arguments, or by   *)
(* `xmag build` with every option.                                         *)
(***************************************************************************)
ColumnChoices == {0, 1, 3, 6, 7}

MarginChoices == {0, 4, 9}

EdgeChoices == {-1, 10}

GapChoices == {0, 4}

\* Every field given.
FullArgs ==
    [paper : {"a4", "letter"}, columns : ColumnChoices,
     outer_margin_mm : MarginChoices, inner_margin_mm : MarginChoices,
     top_margin_mm : EdgeChoices, bottom_margin_mm : EdgeChoices,
     column_gap_mm : GapChoices, pagination : Paginations,
     image_layout : ImageLayouts]

\* No argument, and the arguments of the tests of test_layout_config.py.
SparseArgs ==
    {<<>>,
     [inner_margin_mm |-> 2, outer_margin_mm |-> 4],
     [column_gap_mm |-> 0],
     [image_layout |-> "appendix"]}

\* The options `xmag build` hands over: typer keeps columns within min=1,
\* max=6 before build runs.
CliArgs == {args \in FullArgs : args.columns >= ColumnsGe /\ args.columns <= ColumnsLe}

InitLayout ==
    /\ InitBuildIdle
    /\ InitInputIdle
    /\ InitBlocksIdle
    /\ InitExtractIdle
    /\ InitCodeIdle
    /\ InitSanitizeIdle
    /\ InitInlineIdle
    /\ InitRenderIdle
    /\ \/ pc = "construct" /\ layout_args \in FullArgs \cup SparseArgs
       \/ pc = "cli" /\ layout_args \in CliArgs
    /\ layout_result = [kind |-> "none", config |-> NoConfig]
    /\ exit_code = -1

notLayoutVars == <<idleBuildVars, inputVars, blockVars, sanitizeVars, inlineVars,
                   renderVars, extractVars, codeVars>>

\* LayoutConfig(**layout_args) returns or raises.
Construct ==
    /\ pc = "construct"
    /\ layout_result' = LayoutConfig(layout_args)
    /\ pc' = "constructed"
    /\ UNCHANGED <<notLayoutVars, layout_args, exit_code>>

\* cli.build, lines 42-53: the configuration is built from the options.
CliConstruct ==
    /\ pc = "cli"
    /\ layout_result' = LayoutConfig(layout_args)
    /\ pc' = IF layout_result'.kind = "config" THEN "cli_build" ELSE "cli_error"
    /\ UNCHANGED <<notLayoutVars, layout_args, exit_code>>

\* cli.build, lines 54-56: raise typer.Exit(code=2)
CliExit ==
    /\ pc = "cli_error"
    /\ exit_code' = 2
    /\ pc' = "exited"
    /\ UNCHANGED <<notLayoutVars, layout_args, layout_result>>

\* cli.build, lines 58-68: build_issue(..., config=config, ...) is called.
CliBuildIssue ==
    /\ pc = "cli_build"
    /\ pc' = "build_issue"
    /\ UNCHANGED <<notLayoutVars, layoutVars>>

NextLayout == Construct \/ CliConstruct \/ CliExit \/ CliBuildIssue

SpecLayout == InitLayout /\ [][NextLayout]_vars

(***************************************************************************)
(* Claims about LayoutConfig.                                              *)
(***************************************************************************)
\* The value a field takes: the one given, else the default.
Given(field) ==
    IF field \in DOMAIN layout_args THEN layout_args[field] ELSE LayoutDefaults[field]

\* The conditions under which a layout is valid.
LayoutAccepted ==
    /\ Given("columns") \in 1..6
    /\ Given("outer_margin_mm") > 0
    /\ Given("inner_margin_mm") > 0
    /\ Given("top_margin_mm") > 0
    /\ Given("bottom_margin_mm") > 0
    /\ Given("column_gap_mm") > 0
    /\ Given("inner_margin_mm") >= Given("outer_margin_mm")

\* C19: constructing a LayoutConfig succeeds exactly when columns is within
\* 1..6, the four margins and the column gap are positive and the inner
\* margin is at least the outer one; otherwise it fails with a validation
\* error and gives no configuration, and build_issue is never called.
C19_LayoutValidation ==
    /\ layout_result.kind # "none" =>
          /\ layout_result.kind = "config" <=> LayoutAccepted
          /\ layout_result.kind = "config" =>
                \A f \in LayoutFields : layout_result.config[f] = Given(f)
          /\ layout_result.kind # "config" =>
                /\ layout_result.kind = "ValidationError"
                /\ layout_result.config = NoConfig
    /\ pc \in {"cli_build", "build_issue"} =>
          layout_result.kind = "config" /\ LayoutAccepted
    /\ pc = "exited" => (~LayoutAccepted /\ exit_code = 2)

\* Equal inner and outer margins are accepted.
C19_Witness ==
    /\ pc = "constructed"
    /\ layout_args \in FullArgs
    /\ layout_args.inner_margin_mm = layout_args.outer_margin_mm
    /\ layout_result.kind = "config"

\* An inner margin below the outer one stops the CLI before build_issue.
C19_RejectWitness ==
    /\ pc = "exited"
    /\ layout_args.inner_margin_mm < layout_args.outer_margin_mm
    /\ layout_result.kind = "ValidationError"

\* C20: a LayoutConfig constructed with no arguments has paper=A4,
\* columns=3, outer_margin_mm=4.0, inner_margin_mm=9.0,
\* pagination=continuous and image_layout=span.
C20_LayoutDefaults ==
    (pc = "constructed" /\ layout_args = <<>>) =>
       /\ layout_result.kind = "config"
       /\ layout_result.config.paper = "a4"
       /\ layout_result.config.columns = 3
       /\ layout_result.config.outer_margin_mm = 4
       /\ layout_result.config.inner_margin_mm = 9
       /\ layout_result.config.pagination = "continuous"
       /\ layout_result.config.image_layout = "span"

\* What the fields of LayoutConfig() are: those of the claim but for
\* pagination and image_layout, which are newpage and inline.
C20_DefaultsOfTheClass ==
    (pc = "constructed" /\ layout_args = <<>>) =>
       /\ layout_result.kind = "config"
       /\ layout_result.config.paper = "a4"
       /\ layout_result.config.columns = 3
       /\ layout_result.config.outer_margin_mm = 4
       /\ layout_result.config.inner_margin_mm = 9
       /\ layout_result.config.pagination = "newpage"
       /\ layout_result.config.image_layout = "inline"

(***************************************************************************)
(* Claims about the BuildReport build_issue returns.                       *)
(***************************************************************************)
\* The number of paths report.outputs holds for a pagination mode.
ExpectedOutputs(r) == IF pagination = "split" THEN r.succeeded ELSE 1

\* C24: whenever build_issue returns a BuildReport, total = succeeded +
\* failed, failed is the number of recorded failure messages, succeeded is at
\* least 1, and outputs holds one path in continuous and newpage mode and
\* `succeeded` paths in split mode; a run in which every article failed
\* returns no report and ends with an error, also under continue_on_error.
C24_ReportAccounting ==
    /\ pc = "returned" =>
          /\ Len(report) = 1
          /\ LET r == report[1]
             IN /\ r.total = Len(inputs)
                /\ r.total = r.succeeded + r.failed
                /\ r.failed = Len(r.failures)
                /\ r.succeeded >= 1
                /\ r.succeeded = Len(contents)
                /\ Len(r.outputs) = ExpectedOutputs(r)
    /\ (pc # "extract" /\ contents = <<>>) =>
          /\ pc = "raised"
          /\ error # ""
          /\ report = <<>>

\* A split build returns after two successes and a recorded failure.
C24_Witness ==
    /\ pc = "returned"
    /\ pagination = "split"
    /\ continue_on_error
    /\ report[1].failed >= 1
    /\ report[1].succeeded >= 2

\* Every article failed under continue_on_error: an error and no report.
C24_AllFailedWitness ==
    /\ pc = "raised"
    /\ continue_on_error
    /\ Len(failures) = Len(inputs)
    /\ report = <<>>

(***************************************************************************)
(* _listings_language and _render_code_block (renderer.py).                *)
(***************************************************************************)
\* r"\begin{lstlisting}"
BeginListing ==
    <<Backslash, "b", "e", "g", "i", "n", "{", "l", "s", "t", "l", "i", "s", "t",
      "i", "n", "g", "}">>

\* r"\end{lstlisting}"
EndListing ==
    <<Backslash, "e", "n", "d", "{", "l", "s", "t", "l", "i", "s", "t", "i", "n",
      "g", "}">>

\* r"\\end{lstlisting}": two backslashes, then end{lstlisting}
SafeEndListing == <<Backslash>> \o EndListing

RECURSIVE ReplaceFrom(_, _, _, _)
\* str.replace(old, new) from position p on: the leftmost occurrences, none
\* overlapping, each replaced once.
ReplaceFrom(s, p, old, new) ==
    IF p > Len(s) THEN <<>>
    ELSE IF ExactAt(s, p, old)
         THEN new \o ReplaceFrom(s, p + Len(old), old, new)
         ELSE <<s[p]>> \o ReplaceFrom(s, p + 1, old, new)

\* str.replace(old, new), old non-empty
Replace(s, old, new) == ReplaceFrom(s, 1, old, new)

PythonName == <<"P", "y", "t", "h", "o", "n">>

JavaName == <<"J", "a", "v", "a">>

\* The mapping of _listings_language: mapping.get(normalized, "")
ListingsMapping(normalized) ==
    CASE normalized = <<"p", "y">> -> PythonName
      [] normalized = <<"p", "y", "t", "h", "o", "n">> -> PythonName
      [] normalized = <<"j", "s">> -> JavaName
      [] normalized = <<"j", "a", "v", "a", "s", "c", "r", "i", "p", "t">> -> JavaName
      [] normalized = <<"t", "s">> -> JavaName
      [] normalized = <<"t", "y", "p", "e", "s", "c", "r", "i", "p", "t">> -> JavaName
      [] OTHER -> <<>>

\* _listings_language(language)
ListingsLanguage(language) ==
    IF language = NoLanguage THEN <<>>
    ELSE LET mapped == ListingsMapping(Lower(Strip(language)))
         IN IF mapped = <<>> THEN <<>>
            ELSE <<"[", "l", "a", "n", "g", "u", "a", "g", "e", "=">> \o mapped \o <<"]">>

\* _render_code_block(block)
RenderCodeBlock(block) ==
    LET begin == BeginListing \o ListingsLanguage(block.language)
        safe_code == Replace(block.body, EndListing, SafeEndListing)
    IN JoinWith(<<begin, safe_code, EndListing>>, <<"\n">>)

(***************************************************************************)
(* Code blocks rendered: the bodies are written from a few pieces, among   *)
(* them the terminator of the listing environment, and are the bodies      *)
(* _parse_content_blocks gives a code block: non-empty, no newline at      *)
(* either end.                                                             *)
(***************************************************************************)
MaxCodeParts == 3

CodePartChoices == {<<"x">>, <<"\n">>, <<Backslash>>, EndListing, <<"e", "n", "d">>}

LanguageChoices == {NoLanguage, <<"p", "y">>, <<" ", "J", "S">>, <<"j", "s", "o", "n">>,
                    <<"r", "u", "s", "t">>}

InitCode ==
    /\ pc = "code"
    /\ InitBuildIdle
    /\ InitInputIdle
    /\ InitBlocksIdle
    /\ InitSanitizeIdle
    /\ InitInlineIdle
    /\ InitRenderIdle
    /\ InitLayoutIdle
    /\ InitExtractIdle
    /\ code_parts \in SeqsUpTo(CodePartChoices, MaxCodeParts)
    /\ Flatten(code_parts) # <<>>
    /\ StripNL(Flatten(code_parts)) = Flatten(code_parts)
    /\ \E language \in LanguageChoices :
          code_block = RenderBlock("code", Flatten(code_parts), language)
    /\ code_tex = <<>>

\* _render_code_block(block) returns.
RenderCode ==
    /\ pc = "code"
    /\ code_tex' = <<RenderCodeBlock(code_block)>>
    /\ pc' = "code_rendered"
    /\ UNCHANGED <<idleBuildVars, inputVars, blockVars, sanitizeVars, inlineVars,
                   renderVars, layoutVars, extractVars, code_parts, code_block>>

NextCode == RenderCode

SpecCode == InitCode /\ [][NextCode]_vars

(***************************************************************************)
(* Claims about _render_code_block.                                        *)
(***************************************************************************)
\* The number of positions of s at which the literal stands.
Occurrences(s, literal) == Cardinality({p \in 1..Len(s) : ExactAt(s, p, literal)})

\* s.endswith("\n" + literal)
EndsWithLine(s, literal) ==
    LET line == <<"\n">> \o literal
    IN Len(s) >= Len(line) /\ SubSeq(s, Len(s) - Len(line) + 1, Len(s)) = line

\* C23: for every code block body, also one that contains \end{lstlisting},
\* the output of _render_code_block contains \end{lstlisting} as a substring
\* exactly once, as its final line.
C23_SingleTerminator ==
    code_tex # <<>> =>
       /\ Occurrences(code_tex[1], EndListing) = 1
       /\ EndsWithLine(code_tex[1], EndListing)

\* What the replacement does: every terminator of the body is still in the
\* output, after one more backslash, and the output ends with the line of
\* the terminator.
C23_TerminatorsKept ==
    code_tex # <<>> =>
       /\ Occurrences(code_tex[1], EndListing)
             = 1 + Occurrences(code_block.body, EndListing)
       /\ Occurrences(code_tex[1], SafeEndListing)
             = Occurrences(code_block.body, EndListing)
       /\ EndsWithLine(code_tex[1], EndListing)

(***************************************************************************)
(* _find_article_locator, _extract_text_from_locator and extract_article   *)
(* (extractor.py).  An article element of the page is the record of what   *)
(* its locators give: whether it holds a link to /status/<id>, the         *)
(* inner_text() of the nodes of each selector, and its own inner_text().   *)
(***************************************************************************)
\* range(min(nodes.count(), 20))
NodeLimit == 20

\* len(candidate) >= 12
MinCandidateLength == 12

\* len(sanitized) >= 40
AcceptLength == 40

\* The selectors of selector_candidates, in order, as fields of an element.
SelectorCandidates == <<"tweet_text", "div_lang", "div_dir_auto">>

\* lines 145-149: the stripped texts of the first nodes that are long enough
Collected(nodes) ==
    LET firsts == SubSeq(nodes, 1, IF Len(nodes) < NodeLimit THEN Len(nodes)
                                   ELSE NodeLimit)
        stripped == [i \in 1..Len(firsts) |-> Strip(firsts[i])]
    IN SubSeqAt(stripped, {i \in 1..Len(stripped) :
                              Len(stripped[i]) >= MinCandidateLength})

\* max(collected, key=len): the first of the longest
LongestOf(collected) ==
    collected[CHOOSE i \in 1..Len(collected) :
                 /\ \A j \in 1..Len(collected) : Len(collected[j]) <= Len(collected[i])
                 /\ \A j \in 1..(i - 1) : Len(collected[j]) < Len(collected[i])]

\* lines 154-157: the candidate text of one selector
CandidateText(selector, collected) ==
    IF selector = "tweet_text"
    THEN JoinWith(DedupePreserve(collected), <<"\n", "\n">>)
    ELSE LongestOf(collected)

\* The sanitized candidate of a selector, <<>> when the selector has no node,
\* no node is long enough, or nothing is left of the candidate.
SanitizedCandidate(element, selector, author_name, author_handle) ==
    LET collected == Collected(element[selector])
    IN IF collected = <<>> THEN <<>>
       ELSE SanitizeText(CandidateText(selector, collected), author_name,
                         author_handle)

\* line 161: the first selector's text is returned at once
AcceptedAtOnce(selector, text_of) == selector = "tweet_text" /\ Len(text_of) >= AcceptLength

RECURSIVE SelectorLoop(_, _, _, _, _)
\* lines 140-164: `for selector in selector_candidates` from the k-th
\* selector with best_sanitized; [returned, text]
SelectorLoop(element, k, best_sanitized, author_name, author_handle) ==
    IF k > Len(SelectorCandidates)
    THEN [returned |-> FALSE, text |-> best_sanitized]
    ELSE LET selector == SelectorCandidates[k]
             text_of == SanitizedCandidate(element, selector, author_name,
                                           author_handle)
         IN IF text_of # <<>> /\ AcceptedAtOnce(selector, text_of)
            THEN [returned |-> TRUE, text |-> text_of]
            ELSE SelectorLoop(element, k + 1,
                              IF Len(text_of) > Len(best_sanitized)
                              THEN text_of ELSE best_sanitized,
                              author_name, author_handle)

\* article_locator.inner_text() raised
InnerTextRaises == <<"Exception">>

\* lines 166-169: fallback_inner_text
FallbackInnerText(element) ==
    IF element.inner_text = InnerTextRaises THEN <<>> ELSE Strip(element.inner_text)

\* line 173: the text of the whole element replaces a shorter best
FallbackWins(sanitized_inner, best_sanitized) ==
    Len(sanitized_inner) > Len(best_sanitized)

\* lines 166-178, after the loop
AfterSelectors(element, best_sanitized, author_name, author_handle) ==
    LET fallback_inner_text == FallbackInnerText(element)
        sanitized_inner ==
            IF fallback_inner_text = <<>> THEN <<>>
            ELSE SanitizeText(fallback_inner_text, author_name, author_handle)
        best == IF fallback_inner_text # <<>>
                   /\ FallbackWins(sanitized_inner, best_sanitized)
                THEN sanitized_inner ELSE best_sanitized
    IN IF best # <<>> THEN [kind |-> "text", text |-> best]
       ELSE [kind |-> "ArticleExtractionError", text |-> <<>>]

\* _extract_text_from_locator(article_locator, author_name, author_handle)
ExtractTextFromLocator(element, author_name, author_handle) ==
    LET looped == SelectorLoop(element, 1, <<>>, author_name, author_handle)
    IN IF looped.returned THEN [kind |-> "text", text |-> looped.text]
       ELSE AfterSelectors(element, looped.text, author_name, author_handle)

\* page.locator('article:has(a[href*="/status/<id>"])'): the positions of
\* the matching articles
Anchored(articles) == {i \in 1..Len(articles) : articles[i].anchored}

\* locator.first
First(positions) == CHOOSE i \in positions : \A j \in positions : i <= j

\* _find_article_locator lines 184-192, after wait_for_selector returned
FindArticleLocator(articles) ==
    IF Anchored(articles) # {}
    THEN [kind |-> "locator", index |-> First(Anchored(articles))]
    ELSE IF articles # <<>> THEN [kind |-> "locator", index |-> 1]
         ELSE [kind |-> "ArticleNotFoundError", index |-> 0]

\* timeout_ms = timeout_s * 1000
TimeoutMs(t) == t * 1000

\* page.wait_for_selector("article", timeout=timeout_ms) returns
WaitForSelectorOk(p, t) == p.appears_after <= TimeoutMs(t)

(***************************************************************************)
(* Extractions: extract_article on a page whose root element appears after *)
(* some delay and whose articles are drawn from a few elements.            *)
(***************************************************************************)
MaxPageArticles == 2

RECURSIVE Phrase(_)
\* A text of 6 * n + 1 characters: n words, then a full stop.
Phrase(n) ==
    IF n = 0 THEN <<".">> ELSE <<"l", "o", "r", "e", "m", " ">> \o Phrase(n - 1)

\* Too short for a candidate, and texts below and above the length that is
\* accepted at once.
TinyText == Phrase(1)

ShortText == Phrase(3)

MidText == Phrase(5)

LongText == Phrase(7)

\* A candidate of which the sanitizer leaves nothing.
MetricText == <<"1", ",", "2", "3", "4", ",", "5", "6", "7", ",", "8", "9", "0">>

AliceName == <<"A", "l", "i", "c", "e">>

AliceHandle == <<"@", "a", "l", "i", "c", "e">>

\* The text of a whole article element: author, body, and a line under it.
WholeText(body) ==
    AliceName \o <<"\n">> \o AliceHandle \o <<"\n">> \o body
       \o <<"\n", "r", "e", "p", "l", "y", " ", "b", "e", "l", "o", "w">>

Element(tweet_text, div_lang, div_dir_auto, inner_text) ==
    [tweet_text |-> tweet_text, div_lang |-> div_lang,
     div_dir_auto |-> div_dir_auto, inner_text |-> inner_text]

ElementChoices ==
    {Element(<<LongText>>, <<>>, <<>>, WholeText(LongText)),
     Element(<<ShortText>>, <<>>, <<>>, WholeText(ShortText)),
     Element(<<ShortText>>, <<MidText>>, <<>>, InnerTextRaises),
     Element(<<>>, <<>>, <<>>, WholeText(ShortText)),
     Element(<<MetricText>>, <<>>, <<>>, <<>>),
     Element(<<TinyText>>, <<ShortText, MidText>>, <<LongText>>, <<>>),
     Element(<<ShortText, ShortText, MidText>>, <<>>, <<>>, InnerTextRaises),
     Element(<<>>, <<>>, <<>>, MetricText)}

\* An article of the page: an element, with or without a link to the status.
ArticleChoices == [anchored : BOOLEAN, element : ElementChoices]

\* The milliseconds after which the root element is on the page: at once,
\* between the first timeout and the doubled one, after both.
AppearChoices == {0, 45000, 90000}

InitExtract ==
    /\ pc = "find"
    /\ InitBuildIdle
    /\ InitInputIdle
    /\ InitBlocksIdle
    /\ InitSanitizeIdle
    /\ InitInlineIdle
    /\ InitRenderIdle
    /\ InitLayoutIdle
    /\ InitCodeIdle
    /\ page \in [appears_after : AppearChoices,
                 articles : SeqsUpTo(ArticleChoices, MaxPageArticles)]
    /\ extract_call = [attempt |-> 1, timeout_s |-> DefaultTimeoutSeconds]
    /\ article_locator = NoLocator
    /\ extraction = NoExtraction

notExtractVars == <<idleBuildVars, inputVars, blockVars, sanitizeVars, inlineVars,
                    renderVars, layoutVars, codeVars>>

\* extract_article lines 215-216: page.goto, then _find_article_locator.
\* wait_for_selector raises PlaywrightTimeoutError, or the locator is
\* chosen, or ArticleNotFoundError is raised and leaves extract_article
\* (line 247).  The articles are those on the page when the locators are
\* counted, which is after the wait.
FindLocator ==
    /\ pc = "find"
    /\ IF ~WaitForSelectorOk(page, extract_call.timeout_s)
       THEN /\ pc' = "timeout"
            /\ UNCHANGED <<article_locator, extraction>>
       ELSE /\ article_locator' = FindArticleLocator(page.articles)
            /\ IF article_locator'.kind = "locator"
               THEN pc' = "located" /\ UNCHANGED extraction
               ELSE /\ pc' = "extract_raised"
                    /\ extraction' = [kind |-> "ArticleNotFoundError", text |-> <<>>]
    /\ UNCHANGED <<notExtractVars, page, extract_call>>

\* extract_article lines 241-246: except PlaywrightTimeoutError
OnPlaywrightTimeout ==
    /\ pc = "timeout"
    /\ IF RetryAllowed(extract_call.attempt)
       THEN /\ extract_call' = [attempt |-> 2,
                                timeout_s |-> RetryTimeout(extract_call.timeout_s)]
            /\ pc' = "find"
            /\ UNCHANGED extraction
       ELSE /\ extraction' = [kind |-> "ArticleTimeoutError", text |-> <<>>]
            /\ pc' = "extract_raised"
            /\ UNCHANGED extract_call
    /\ UNCHANGED <<notExtractVars, page, article_locator>>

\* The element article_locator stands for.
LocatedElement == page.articles[article_locator.index].element

\* extract_article lines 218-240: the author, the text, and the
\* ArticleContent; the ArticleExtractionError of the text leaves
\* extract_article (line 247).  The User-Name node of every element reads
\* Alice, @alice, which is what _extract_author gives the sanitizer.
ExtractText ==
    /\ pc = "located"
    /\ LET found == ExtractTextFromLocator(LocatedElement, AliceName, AliceHandle)
       IN IF found.kind = "text"
          THEN /\ extraction' = [kind |-> "ArticleContent", text |-> found.text]
               /\ pc' = "extract_returned"
          ELSE /\ extraction' = [kind |-> "ArticleExtractionError", text |-> <<>>]
               /\ pc' = "extract_raised"
    /\ UNCHANGED <<notExtractVars, page, extract_call, article_locator>>

NextExtract == FindLocator \/ OnPlaywrightTimeout \/ ExtractText

SpecExtract == InitExtract /\ [][NextExtract]_vars

(***************************************************************************)
(* Claims about extract_article.                                           *)
(***************************************************************************)
\* extract_article has returned or raised.
ExtractFinished == extraction.kind # "none"

\* The root element was on the page within the timeout of the last call.
RootAppeared == page.appears_after <= extract_call.timeout_s * 1000

\* The article the claim names: the first with a link to the status when
\* there is one, else the first of the page.
PreferredArticle ==
    IF \E i \in 1..Len(page.articles) : page.articles[i].anchored
    THEN CHOOSE i \in 1..Len(page.articles) :
            /\ page.articles[i].anchored
            /\ \A j \in 1..(i - 1) : ~page.articles[j].anchored
    ELSE 1

\* The element is chosen as the claim says, and no element gives NotFound.
ChosenAsPreferred ==
    /\ article_locator.kind = "locator" =>
          /\ page.articles # <<>>
          /\ article_locator.index = PreferredArticle
    /\ (ExtractFinished /\ RootAppeared) =>
          (extraction.kind = "ArticleNotFoundError" <=> page.articles = <<>>)

\* C21: if the root content element does not appear within the timeout the
\* extraction fails with ArticleNotFoundError; otherwise the element whose
\* link references /status/<id> is chosen when there is one, else the first
\* content element, and ArticleNotFoundError is raised when there is none.
C21_NotFoundOrPreferred ==
    /\ (ExtractFinished /\ ~RootAppeared) => extraction.kind = "ArticleNotFoundError"
    /\ ChosenAsPreferred

\* What extract_article does when the root element does not appear: one
\* more call with the doubled timeout, then ArticleTimeoutError; the choice
\* of the element is as in C21.
C21_TimeoutThenPreferred ==
    /\ (ExtractFinished /\ ~RootAppeared) =>
          /\ extraction.kind = "ArticleTimeoutError"
          /\ extract_call.attempt = 2
    /\ ChosenAsPreferred

\* The sanitized candidates of the structural queries of the located
\* element, in the order of the queries; <<>> where a query gives none.
QueryTexts(element) ==
    [k \in 1..Len(SelectorCandidates) |->
        SanitizedCandidate(element, SelectorCandidates[k], AliceName, AliceHandle)]

\* The longest of the texts.
Longest(texts) ==
    {t \in Range(texts) : \A u \in Range(texts) : Len(u) <= Len(t)}

\* The text the claim allows when a query gave a candidate: that of the
\* first query when it has 40 characters, or the longest of the candidates.
AllowedTexts(texts) ==
    (IF Len(texts[1]) >= 40 THEN {texts[1]} ELSE {}) \cup Longest(texts)

\* C22: the text of the whole element is used only when no structural query
\* gives a non-empty sanitized candidate; when one does, the result is the
\* sanitized text of the first query (accepted at once from 40 characters)
\* or the longest sanitized candidate of the queries; an empty final text
\* is an extraction error, so no ArticleContent has an empty text.
C22_FallbackOnlyWithoutCandidates ==
    /\ extraction.kind = "ArticleContent" =>
          /\ extraction.text # <<>>
          /\ LET texts == QueryTexts(LocatedElement)
             IN (\E k \in 1..Len(texts) : texts[k] # <<>>) =>
                   extraction.text \in AllowedTexts(texts)
    /\ extraction.kind = "ArticleExtractionError" => extraction.text = <<>>

\* strip() and _sanitize_text of the text of the whole element.
WholeElementText(element) ==
    IF element.inner_text = InnerTextRaises \/ Strip(element.inner_text) = <<>>
    THEN <<>>
    ELSE SanitizeText(Strip(element.inner_text), AliceName, AliceHandle)

\* What _extract_text_from_locator returns: the text of the first query
\* when it has 40 characters, else the longest of the candidates and of the
\* text of the whole element, which wins whenever it is longer than every
\* candidate; an ArticleContent never has an empty text.
C22_WholeTextWinsWhenLonger ==
    extraction.kind = "ArticleContent" =>
       /\ extraction.text # <<>>
       /\ LET texts == QueryTexts(LocatedElement)
              whole == WholeElementText(LocatedElement)
          IN IF Len(texts[1]) >= 40 THEN extraction.text = texts[1]
             ELSE /\ extraction.text \in Longest(Append(texts, whole))
                  /\ (\A k \in 1..Len(texts) : Len(whole) > Len(texts[k])) =>
                        extraction.text = whole

==========================================================================
